---- MODULE Spec2Model ----
(***************************************************************************)
(* Input-acquisition layer of the flight controller:                       *)
(*   - the timer capture/compare interrupt dispatcher                      *)
(*     (src/src/main/drivers/timer.c), and                                 *)
(*   - the receiver channel pipeline (src/src/main/rx/rx.c), with the      *)
(*     feature mask and the default channel map of                         *)
(*     src/src/main/config/config.c.                                       *)
(*                                                                         *)
(* Array indices are 0-based as in the C source: a C array is a function   *)
(* over 0..(n-1).                                                          *)
(***************************************************************************)
EXTENDS Integers, Sequences, FiniteSets, TLC

NULL == "NULL"

(***************************************************************************)
(*                    PART 1 - TIMER CAPTURE DISPATCHER                    *)
(***************************************************************************)

\* timer.c:88 (the STM32F10X_MD / NAZE build): TIM1..TIM4
MAX_TIMERS == 4

\* timer.c:90-92
timers == [i \in 0..(MAX_TIMERS - 1) |-> <<"TIM1", "TIM2", "TIM3", "TIM4">>[i + 1]]

\* timer.c:224
CC_CHANNELS_PER_TIMER == 4

\* The peripheral library's channel constants, as listed in timer.c:225-227.
TIM_Channel_1 == 0
TIM_Channel_2 == 4
TIM_Channel_3 == 8
TIM_Channel_4 == 12

\* timer.c:225-227
channels == [i \in 0..(CC_CHANNELS_PER_TIMER - 1) |->
                <<TIM_Channel_1, TIM_Channel_2, TIM_Channel_3, TIM_Channel_4>>[i + 1]]

\* Bounds of the dispatcher model.
MaxRegistrations == 2       \* registration calls since timerInit

\* The peripherals whose registration calls and interrupt entries are explored.
ModelTimers == {"TIM2", "TIM3"}
ModelChannels == {channels[i] : i \in 0..(CC_CHANNELS_PER_TIMER - 1)}
\* The <<edge callback, overflow callback>> pairs a registration call supplies:
\* an edge callback alone (configureTimerChannelCallback, timer.c:262-265),
\* both callbacks, or an overflow callback alone.
CallbackPairs == {<<"edgeCallback", NULL>>, <<"edgeCallback", "overflowCallback">>,
                  <<NULL, "overflowCallback">>}
References == {0, 1}

\* Interrupt sources of one peripheral, as named by the peripheral library.
TIM_IT_Update == "TIM_IT_Update"
ITSources == {TIM_IT_Update, "TIM_IT_CC1", "TIM_IT_CC2", "TIM_IT_CC3", "TIM_IT_CC4"}

VARIABLES
    timerConfig,        \* timer.c:237  the registration table, slot -> timerConfig_t
    regCount,           \* number of registration calls made (bounds the exploration)
    lastRegistration,   \* history: <<tim, channel>> -> arguments of the latest registration
    irqTim,             \* the peripheral whose interrupt entry has just run, or NULL
    irqStatus,          \* the interrupt sources that were pending at that entry
    irqCleared,         \* the interrupt sources that entry cleared
    calls,              \* the callback invocations of that entry, in order
    itEnabled,          \* the interrupt sources enabled by TIM_ITConfig, as <<tim, source>>
    beyondTables,       \* what the build placed behind the timers and channels tables
    spinning            \* a table walk of a registration call never ends

\* The hardware and the memory layout the dispatcher runs on.
hwVars == <<itEnabled, beyondTables, spinning>>

timerVars == <<timerConfig, regCount, lastRegistration, irqTim, irqStatus, irqCleared, calls,
               hwVars>>

VARIABLES
    enabledFeatures,    \* config.c:646   masterConfig.enabledFeatures, as a set of features
    rxConfig,           \* rx.c:73        midrc, rcmap, rssi_channel
    rxRuntimeConfig,    \* rx.c:72        channelCount
    rcReadRawFunc,      \* rx.c:70
    rcData,             \* rx.c:61        the published channel array
    rcDataReceived,     \* rx.c:174
    rxUpdateAt,         \* rx.c:175       uint32_t
    rcSampleIndex,      \* rx.c:209       uint8_t
    rcSamples,          \* rx.c:213       chan -> slot -> int16_t
    rcDataMean,         \* rx.c:214       chan -> int16_t
    rxSamplesCollected, \* rx.c:215
    rssi,               \* rx.c:59
    adcRssiSamples,     \* rx.c:340       slot -> uint8_t
    adcRssiSampleIndex, \* rx.c:341
    rssiUpdateAt,       \* rx.c:342       uint32_t
    frameComplete,      \* the active frame driver holds a complete, unread frame
    ppmDataReceived,    \* the PPM driver has seen a pulse since the last check
    currentTime,        \* the microsecond clock, uint32_t
    rawRead,            \* history: the <<physical channel, sample>> reads of the latest tick
    fsCalls,            \* history: the failsafe operations called by the latest operation
    history,            \* history: chan -> the validated samples of the latest (up to 4) POLL ticks
    pollTicks,          \* history: POLL ticks taken, counted up to 6
    sinceRxUpdate,      \* history: time passed since the rx deadline was set, minus the delay
    sinceRssiUpdate,    \* history: the same for the deadline of the ADC sampling
    clockSteps,         \* history: the number of advances of the clock
    rssiInput,          \* history: the value the latest RSSI update converted
    mapString,          \* history: the map string parsed last
    remapQuery,         \* history: the latest channel lookup and its answer
    adcHistory,         \* history: the latest (up to 16) ADC percentages, in order of arrival
    adcTaken,           \* history: ADC samples taken, counted up to MaxAdcSamples
    bootSetup           \* history: the setup the boot started from

configVars == <<enabledFeatures, rxConfig, rxRuntimeConfig, rcReadRawFunc, mapString, bootSetup>>
channelVars == <<rcData, rcSampleIndex, rcSamples, rcDataMean, rxSamplesCollected, rawRead,
                 history, pollTicks>>
frameVars == <<rcDataReceived, frameComplete, ppmDataReceived, fsCalls>>
gateVars == <<rxUpdateAt, sinceRxUpdate>>
adcGhost == <<adcHistory, adcTaken>>
rssiVars == <<rssi, adcRssiSamples, adcRssiSampleIndex, rssiUpdateAt, sinceRssiUpdate, rssiInput,
              adcGhost>>
clockVars == <<currentTime, clockSteps>>
rxVars == <<configVars, channelVars, frameVars, gateVars, rssiVars, clockVars, remapQuery>>

VARIABLES
    capturePc,          \* timer.c:301-308  the call of configureTimerCaptureCompareInterrupt in progress
    loopPc,             \* rx.c:239-311     the call of calculateRxChannelsAndUpdateFailsafe in progress
    latched,            \* the receiver driver's buffer: physical channel -> latest sample
    consumed,           \* history: the channel array as the consumer read it last
    completeRcData,     \* history: the channel array as the latest completed pipeline call left it
    eeprom              \* config.c:546-596 the call of writeEEPROM in progress, and the flash it writes

\* The position of the main program within its calls, and what it exchanges
\* with the interrupt handlers and with the consumer of the channel array.
mainVars == <<capturePc, loopPc, latched, consumed, completeRcData, eeprom>>

\* No call is in progress.
Idle == [step |-> "idle"]

\* timer.c:229-235, zeroed by the memset of timerInit (timer.c:451).
\* The tim field is never written by any function of timer.c and is left out.
ZeroTimerConfig ==
    [channel |-> 0, edgeCallback |-> NULL, overflowCallback |-> NULL, reference |-> 0]

NoRegistration == [registered |-> FALSE]

\* timer.c:239-246: walk the timers table until the entry equals tim.  The
\* loop has no bound: for a tim that is not in the table it reads on behind
\* the table, and stops at the index beyondTables.timers at which the build
\* happens to hold a word equal to tim, or never (NEVER) when the uint8_t
\* index wraps without a match.
NEVER == -1
RECURSIVE lookupTimerIndexFrom(_, _)
lookupTimerIndexFrom(tim, timerIndex) ==
    IF timerIndex >= MAX_TIMERS THEN beyondTables.timers
    ELSE IF timers[timerIndex] # tim THEN lookupTimerIndexFrom(tim, timerIndex + 1)
    ELSE timerIndex

lookupTimerIndex(tim) == lookupTimerIndexFrom(tim, 0)

\* timer.c:248-255: the same walk over the channels table, which stops
\* behind the table at beyondTables.channels, or never.
RECURSIVE lookupChannelIndexFrom(_, _)
lookupChannelIndexFrom(channel, channelIndex) ==
    IF channelIndex >= CC_CHANNELS_PER_TIMER THEN beyondTables.channels
    ELSE IF channels[channelIndex] # channel THEN lookupChannelIndexFrom(channel, channelIndex + 1)
    ELSE channelIndex

lookupChannelIndex(channel) == lookupChannelIndexFrom(channel, 0)

\* A slip in the slot arithmetic: the channel stride is dropped.
lookupTimerConfigIndex_NoStride(tim, channel) ==
    (lookupTimerIndex(tim) + lookupChannelIndex(channel)) % 256

\* timer.c:257-260; the sum is returned as a uint8_t.
lookupTimerConfigIndex(tim, channel) ==
    (lookupTimerIndex(tim) + (MAX_TIMERS * lookupChannelIndex(channel))) % 256

\* The registration call comes back: both walks end.
lookupReturns(tim, channel) ==
    lookupTimerIndex(tim) # NEVER /\ lookupChannelIndex(channel) # NEVER

\* timer.c:345-349: the slot at the index looked up.  The index is not
\* compared with the size of the table: behind the table the slot is
\* whatever the build holds there, beyondTables.slot.
findTimerConfig(tim, channel) ==
    LET timerConfigIndex == lookupTimerConfigIndex(tim, channel)
    IN IF timerConfigIndex < MAX_TIMERS * CC_CHANNELS_PER_TIMER
       THEN timerConfig[timerConfigIndex]
       ELSE beyondTables.slot

\* The hardware registers read by the handler: the value read is named by the
\* register it comes from (timer.c:360 tim->ARR, timer.c:380-395 TIM_GetCaptureN).
ARR(tim) == <<tim, "ARR">>
TIM_GetCapture(tim, n) == <<tim, "CCR", n>>

\* The capture-compare interrupt source of the channel with index channelIndex.
TIM_IT_CC(channelIndex) == <<"TIM_IT_CC1", "TIM_IT_CC2", "TIM_IT_CC3", "TIM_IT_CC4">>[channelIndex + 1]

\* TIM_GetITStatus(tim, it) == SET at the interrupt entry whose pending set is status.
TIM_GetITStatus(status, it) == it \in status

\* A slip: the fan-out gives up at the first slot without an overflow callback.
RECURSIVE overflowLoop_StopAtGap(_, _)
overflowLoop_StopAtGap(tim, channelIndex) ==
    IF channelIndex >= CC_CHANNELS_PER_TIMER THEN << >>
    ELSE LET cfg == findTimerConfig(tim, channels[channelIndex])
             call == [kind |-> "overflow", callback |-> cfg.overflowCallback,
                      reference |-> cfg.reference, capture |-> ARR(tim)]
         IN IF cfg.overflowCallback = NULL THEN << >>
            ELSE <<call>> \o overflowLoop_StopAtGap(tim, channelIndex + 1)

\* timer.c:362-370: the overflow fan-out over the 4 channel slots, from channelIndex on.
RECURSIVE overflowLoop(_, _)
overflowLoop(tim, channelIndex) ==
    IF channelIndex >= CC_CHANNELS_PER_TIMER THEN << >>
    ELSE LET cfg == findTimerConfig(tim, channels[channelIndex])
             call == [kind |-> "overflow", callback |-> cfg.overflowCallback,
                      reference |-> cfg.reference, capture |-> ARR(tim)]
         IN (IF cfg.overflowCallback = NULL THEN << >> ELSE <<call>>)
                \o overflowLoop(tim, channelIndex + 1)

\* A copy-and-paste slip: every branch serves channel 1's slot and register.
edgeService_CopyPaste(tim, channelIndex) ==
    [cfg |-> findTimerConfig(tim, TIM_Channel_1), capture |-> TIM_GetCapture(tim, 1)]

\* timer.c:376-395: the slot and the capture register served by the branch of
\* the channel with index channelIndex.
edgeService(tim, channelIndex) ==
    [cfg |-> findTimerConfig(tim, channels[channelIndex]),
     capture |-> TIM_GetCapture(tim, channelIndex + 1)]

\* A slip: the loop gives up at the first channel that has nothing pending.
RECURSIVE edgeLoop_StopAtGap(_, _, _)
edgeLoop_StopAtGap(tim, status, channelIndex) ==
    IF channelIndex >= CC_CHANNELS_PER_TIMER THEN << >>
    ELSE IF ~TIM_GetITStatus(status, TIM_IT_CC(channelIndex)) THEN << >>
    ELSE LET s == edgeService(tim, channelIndex)
             call == [kind |-> "edge", callback |-> s.cfg.edgeCallback,
                      reference |-> s.cfg.reference, capture |-> s.capture]
         IN (IF s.cfg.edgeCallback = NULL THEN << >> ELSE <<call>>)
                \o edgeLoop_StopAtGap(tim, status, channelIndex + 1)

\* timer.c:373-404: the edge loop over the 4 channels, from channelIndex on.
RECURSIVE edgeLoop(_, _, _)
edgeLoop(tim, status, channelIndex) ==
    IF channelIndex >= CC_CHANNELS_PER_TIMER THEN << >>
    ELSE IF ~TIM_GetITStatus(status, TIM_IT_CC(channelIndex))
         THEN edgeLoop(tim, status, channelIndex + 1)          \* timer.c:396-398
    ELSE LET s == edgeService(tim, channelIndex)
             call == [kind |-> "edge", callback |-> s.cfg.edgeCallback,
                      reference |-> s.cfg.reference, capture |-> s.capture]
         IN (IF s.cfg.edgeCallback = NULL THEN << >> ELSE <<call>>)   \* timer.c:400-403
                \o edgeLoop(tim, status, channelIndex + 1)

\* A slip: the edge loop runs before the overflow block.
timCCxHandlerCalls_EdgeFirst(tim, status) ==
    edgeLoop(tim, status, 0)
        \o (IF TIM_GetITStatus(status, TIM_IT_Update) THEN overflowLoop(tim, 0) ELSE << >>)

\* timer.c:351-405: the callback invocations of one interrupt entry, in order.
timCCxHandlerCalls(tim, status) ==
    (IF TIM_GetITStatus(status, TIM_IT_Update) THEN overflowLoop(tim, 0) ELSE << >>)
        \o edgeLoop(tim, status, 0)

\* A slip: a capture-compare flag is cleared only when its slot has an
\* edge callback.
timCCxHandlerCleared_OnlyServed(tim, status) ==
    {it \in ITSources :
        /\ TIM_GetITStatus(status, it)
        /\ \/ it = TIM_IT_Update
           \/ \E channelIndex \in 0..(CC_CHANNELS_PER_TIMER - 1) :
                /\ it = TIM_IT_CC(channelIndex)
                /\ findTimerConfig(tim, channels[channelIndex]).edgeCallback # NULL}

\* timer.c:359, 377, 382, 387, 392: every source found pending is cleared.
timCCxHandlerCleared(tim, status) ==
    {it \in ITSources : TIM_GetITStatus(status, it)}

\* The build behind the two tables: a walk that leaves the timers table
\* stops right behind it, one table length further on, or never; a walk
\* that leaves the channels table stops right behind it, at the index whose
\* stride wraps the uint8_t sum, or never.
Layouts ==
    [timers : {MAX_TIMERS, MAX_TIMERS * CC_CHANNELS_PER_TIMER, NEVER},
     channels : {CC_CHANNELS_PER_TIMER, 256 \div MAX_TIMERS, NEVER}]

DispatcherInitState ==
    /\ timerConfig = [i \in 0..(MAX_TIMERS * CC_CHANNELS_PER_TIMER - 1) |-> ZeroTimerConfig]
    /\ regCount = 0
    /\ lastRegistration = [p \in ModelTimers \X ModelChannels |-> NoRegistration]
    /\ irqTim = NULL
    /\ irqStatus = {}
    /\ irqCleared = {}
    /\ calls = << >>
    /\ itEnabled = {}
    /\ spinning = FALSE
    /\ capturePc = Idle
    /\ eeprom = Idle

TimerInitState ==
    /\ DispatcherInitState
    /\ beyondTables = [timers |-> NEVER, channels |-> NEVER]

\* timer.c:449-451
timerInit ==
    /\ irqTim = NULL
    /\ ~spinning
    /\ timerConfig' = [i \in 0..(MAX_TIMERS * CC_CHANNELS_PER_TIMER - 1) |-> ZeroTimerConfig]
    /\ lastRegistration' = [p \in ModelTimers \X ModelChannels |-> NoRegistration]
    /\ UNCHANGED <<regCount, irqTim, irqStatus, irqCleared, calls, hwVars>>
    /\ UNCHANGED <<rxVars, mainVars>>

\* timer.c:267-281 on the registration table.
registerCallbacks(tim, channel, reference, edgeCallback, overflowCallback) ==
    /\ irqTim = NULL
    /\ ~spinning
    /\ regCount < MaxRegistrations
    /\ regCount' = regCount + 1
    /\ IF ~lookupReturns(tim, channel)
       THEN /\ spinning' = TRUE
            /\ UNCHANGED <<timerConfig, lastRegistration>>
       ELSE /\ spinning' = FALSE
            /\ LET timerConfigIndex == lookupTimerConfigIndex(tim, channel)
               IN IF timerConfigIndex >= MAX_TIMERS * CC_CHANNELS_PER_TIMER
                  THEN timerConfig' = timerConfig
                  ELSE timerConfig' = [timerConfig EXCEPT ![timerConfigIndex] =
                            [channel |-> channel, edgeCallback |-> edgeCallback,
                             overflowCallback |-> overflowCallback, reference |-> reference]]
            /\ lastRegistration' =
                    [p \in DOMAIN lastRegistration |->
                        IF p = <<tim, channel>>
                        THEN [registered |-> TRUE, reference |-> reference,
                              edgeCallback |-> edgeCallback,
                              overflowCallback |-> overflowCallback]
                        ELSE lastRegistration[p]]
    /\ UNCHANGED <<irqTim, irqStatus, irqCleared, calls, beyondTables>>
    /\ UNCHANGED <<rxVars, mainVars>>

\* timer.c:267-281
configureTimerChannelCallbacks(tim, channel, reference, edgeCallback, overflowCallback) ==
    /\ registerCallbacks(tim, channel, reference, edgeCallback, overflowCallback)
    /\ UNCHANGED itEnabled

\* A slip: the switch falls through from each case into the next.
configureTimerInputCaptureCompareChannel_FallThrough(tim, channel) ==
    {<<tim, TIM_IT_CC(i)>> : i \in {j \in 0..(CC_CHANNELS_PER_TIMER - 1) : channels[j] >= channel}}

\* timer.c:283-299: the interrupt sources the switch enables.
configureTimerInputCaptureCompareChannel(tim, channel) ==
    {<<tim, TIM_IT_CC(i)>> : i \in {j \in 0..(CC_CHANNELS_PER_TIMER - 1) : channels[j] = channel}}

\* timer.c:301-308, for the entry <<tim, channel>> of the hardware table.
configureTimerCaptureCompareInterrupt(tim, channel, reference, edgeCallback, overflowCallback) ==
    /\ registerCallbacks(tim, channel, reference, edgeCallback, overflowCallback)
    /\ IF ~lookupReturns(tim, channel)
       THEN UNCHANGED itEnabled
       ELSE itEnabled' = itEnabled
                \cup configureTimerInputCaptureCompareChannel(tim, channel)
                \cup (IF overflowCallback # NULL THEN {<<tim, TIM_IT_Update>>} ELSE {})

\* A slip: the entry unregisters the edge callbacks of its peripheral
\* once it has run.
TIMx_IRQHandler_OneShot(tim, status) ==
    /\ irqTim = NULL
    /\ irqTim' = tim
    /\ irqStatus' = status
    /\ irqCleared' = timCCxHandlerCleared(tim, status)
    /\ calls' = timCCxHandlerCalls(tim, status)
    /\ timerConfig' = [i \in DOMAIN timerConfig |->
            IF i % MAX_TIMERS = lookupTimerIndex(tim)
            THEN [timerConfig[i] EXCEPT !.edgeCallback = NULL] ELSE timerConfig[i]]
    /\ UNCHANGED <<regCount, lastRegistration, hwVars>>
    /\ UNCHANGED <<rxVars, mainVars>>

\* A slip: the interrupt entry publishes into the channel array itself.
TIMx_IRQHandler_Publishes(tim, status) ==
    /\ irqTim = NULL
    /\ irqTim' = tim
    /\ irqStatus' = status
    /\ irqCleared' = timCCxHandlerCleared(tim, status)
    /\ calls' = timCCxHandlerCalls(tim, status)
    /\ rcData' = [rcData EXCEPT ![0] = 0]
    /\ UNCHANGED <<timerConfig, regCount, lastRegistration, hwVars>>
    /\ UNCHANGED <<configVars, rcSampleIndex, rcSamples, rcDataMean, rxSamplesCollected, rawRead,
                   history, pollTicks, frameVars, gateVars, rssiVars, clockVars, remapQuery>>
    /\ UNCHANGED mainVars

\* timer.c:407-425: the interrupt entry of peripheral tim, entered with the
\* interrupt sources in status pending; timCCxHandler runs to completion.
TIMx_IRQHandler(tim, status) ==
    /\ irqTim = NULL
    /\ irqTim' = tim
    /\ irqStatus' = status
    /\ irqCleared' = timCCxHandlerCleared(tim, status)
    /\ calls' = timCCxHandlerCalls(tim, status)
    /\ UNCHANGED <<timerConfig, regCount, lastRegistration, hwVars>>
    /\ UNCHANGED <<rxVars, mainVars>>

\* Return from the interrupt: the record of the entry is dropped.
IRQReturn ==
    /\ irqTim # NULL
    /\ irqTim' = NULL
    /\ irqStatus' = {}
    /\ irqCleared' = {}
    /\ calls' = << >>
    /\ UNCHANGED <<timerConfig, regCount, lastRegistration, hwVars>>
    /\ UNCHANGED <<rxVars, mainVars>>

Register ==
    \E tim \in ModelTimers, channel \in ModelChannels, reference \in References,
       cb \in CallbackPairs :
        configureTimerChannelCallbacks(tim, channel, reference, cb[1], cb[2])

Interrupt ==
    \E tim \in ModelTimers, status \in SUBSET ITSources : TIMx_IRQHandler(tim, status)

(***************************************************************************)
(*                      PART 2 - MACHINE ARITHMETIC                        *)
(***************************************************************************)

\* Conversion of an integer to int16_t and to uint16_t / uint8_t (two's
\* complement wrap), as the assignments of rx.c do implicitly.
ToUint16(x) == x % 65536
ToInt16(x) == LET u == x % 65536 IN IF u >= 32768 THEN u - 65536 ELSE u
ToUint8(x) == x % 256

\* A uint32_t is kept as its two 16-bit halves <<hi, lo>>, so that every
\* operation on it is computed at the width of the C type.
U32(hi, lo) == <<hi, lo>>
U32Zero == <<0, 0>>

\* uint32_t addition, modulo 2^32.
U32Add(a, b) ==
    LET lo == a[2] + b[2]
        hi == a[1] + b[1] + (lo \div 65536)
    IN <<hi % 65536, lo % 65536>>

\* uint32_t subtraction, modulo 2^32.
U32Sub(a, b) ==
    LET lo == a[2] - b[2]
        borrow == IF lo < 0 THEN 1 ELSE 0
        hi == a[1] - b[1] - borrow
    IN <<hi % 65536, lo % 65536>>

\* (int32_t)x >= 0 : the sign bit of the 32-bit pattern is clear.
I32NonNegative(x) == x[1] < 32768

\* common/maths.h constrain(), as used at rx.c:332 and rx.c:365.
constrain(amt, low, high) == IF amt < low THEN low ELSE IF amt > high THEN high ELSE amt

\* IEEE-754 single precision, for the float expressions of rx.c:332, 336, 351
\* and 365.  A positive float is [m, e] with 2^23 <= m < 2^24 and value
\* m * 2^e; zero is [m |-> 0, e |-> 0].  Results are rounded to nearest, ties
\* to even, as each C float operation is.
FloatZero == [m |-> 0, e |-> 0]

\* Round the 24-bit quotient q with remainder r (of divisor d) at exponent e.
FloatRound(q, e, r, d) ==
    LET up == (2 * r > d) \/ (2 * r = d /\ q % 2 = 1)
        q1 == IF up THEN q + 1 ELSE q
    IN IF q1 = 16777216 THEN [m |-> 8388608, e |-> e + 1] ELSE [m |-> q1, e |-> e]

\* Long division: shift quotient bits in until the quotient has 24 bits.
RECURSIVE FloatDivBits(_, _, _, _)
FloatDivBits(q, r, d, e) ==
    IF q >= 8388608 THEN FloatRound(q, e, r, d)
    ELSE IF 2 * r >= d THEN FloatDivBits(2 * q + 1, 2 * r - d, d, e - 1)
    ELSE FloatDivBits(2 * q, 2 * r, d, e - 1)

\* (float)x / (float)d for integers 0 <= x < 2^24 and 0 < d < 2^24.
FloatDivInt(x, d) ==
    IF x = 0 THEN FloatZero ELSE FloatDivBits(x \div d, x % d, d, 0)

\* (float)x / f for an integer 0 <= x < 2^24 and a positive float f.
FloatDivIntByFloat(x, f) ==
    IF x = 0 THEN FloatZero
    ELSE LET q == FloatDivBits(x \div f.m, x % f.m, f.m, 0)
         IN [m |-> q.m, e |-> q.e - f.e]

\* The number of bits of a positive integer.
RECURSIVE BitLength(_)
BitLength(n) == IF n = 0 THEN 0 ELSE 1 + BitLength(n \div 2)

\* f * (float)k for a float f and an integer 0 < k < 2^10: the 34-bit product
\* is formed in two 12-bit limbs and rounded back to 24 bits.
FloatMulInt(f, k) ==
    IF f.m = 0 THEN FloatZero
    ELSE LET a == (f.m \div 4096) * k
             b == (f.m % 4096) * k
             top == a + (b \div 4096)           \* product div 2^12
             low == b % 4096                     \* product mod 2^12
             j == 24 - BitLength(top)            \* bits of low that fit
             q == top * (2 ^ j) + (low \div (2 ^ (12 - j)))
             r == low % (2 ^ (12 - j))
         IN FloatRound(q, f.e + 12 - j, r, 2 ^ (12 - j))

\* Conversion of a non-negative float to an unsigned integer: the fraction
\* is discarded.
FloatToUint(f) ==
    IF f.m = 0 THEN 0
    ELSE IF f.e >= 0 THEN f.m * (2 ^ f.e)
    ELSE IF f.e < -24 THEN 0
    ELSE f.m \div (2 ^ (0 - f.e))

(***************************************************************************)
(*                  PART 3 - RECEIVER CHANNEL PIPELINE                     *)
(***************************************************************************)

\* rx.c:57
rcChannelLetters == <<"A", "E", "R", "T", "1", "2", "3", "4">>
\* rx.h: the number of entries of rxConfig->rcmap
REMAPPABLE_CHANNEL_COUNT == Len(rcChannelLetters)
\* rx.c:63-68
PPM_AND_PWM_SAMPLE_COUNT == 4
PULSE_MIN == 750
PULSE_MAX == 2250
DELAY_50_HZ == 20000
\* rx.c:335
RSSI_ADC_SAMPLE_COUNT == 16

\* The number of channels the selected driver announces in rxRuntimeConfig.
NumChannels == 2

\* config.c:644-657  features are kept as a set; a mask is a set of features.
feature(mask) == (enabledFeatures \cap mask) # {}
featureSet(features, mask) == features \cup mask
featureClear(features, mask) == features \ mask

RxFeatures == {"RX_PPM", "RX_SERIAL", "RX_MSP", "RX_PARALLEL_PWM"}

\* config.c:440-458, applied to a feature set (NAZE build, STM32F10X_MD).
validateAndFixConfig_MspKeepsSerial(features) ==
    LET f1 == IF features \cap RxFeatures = {}
              THEN featureSet(features, {"RX_PARALLEL_PWM"}) ELSE features
        f2 == IF "RX_PPM" \in f1 THEN featureClear(f1, {"RX_PARALLEL_PWM"}) ELSE f1
        f3 == IF "RX_MSP" \in f2
              THEN featureClear(f2, {"RX_PARALLEL_PWM", "RX_PPM"}) ELSE f2
        f4 == IF "RX_SERIAL" \in f3
              THEN featureClear(f3, {"RX_PARALLEL_PWM", "RX_PPM"}) ELSE f3
    IN IF "RX_PARALLEL_PWM" \in f4 THEN featureClear(f4, {"RSSI_ADC"}) ELSE f4
validateAndFixConfig(features) ==
    LET f1 == IF features \cap RxFeatures = {}
              THEN featureSet(features, {"RX_PARALLEL_PWM"}) ELSE features
        f2 == IF "RX_PPM" \in f1 THEN featureClear(f1, {"RX_PARALLEL_PWM"}) ELSE f1
        f3 == IF "RX_MSP" \in f2
              THEN featureClear(f2, {"RX_SERIAL", "RX_PARALLEL_PWM", "RX_PPM"}) ELSE f2
        f4 == IF "RX_SERIAL" \in f3
              THEN featureClear(f3, {"RX_PARALLEL_PWM", "RX_PPM"}) ELSE f3
    IN IF "RX_PARALLEL_PWM" \in f4 THEN featureClear(f4, {"RSSI_ADC"}) ELSE f4

\* strchr(rcChannelLetters, c) - rcChannelLetters, 0-based; -1 for the null
\* pointer.
RECURSIVE letterIndexFrom(_, _)
letterIndexFrom(c, i) ==
    IF i > Len(rcChannelLetters) THEN -1
    ELSE IF rcChannelLetters[i] = c THEN i - 1
    ELSE letterIndexFrom(c, i + 1)

\* rx.c:313-322, the loop from position c (1-based) of input on; rcmap is a
\* function from the logical index 0..7 to the physical index.
RECURSIVE parseRcChannelsFrom(_, _, _)
parseRcChannelsFrom_OneBased(input, c, rcmap) ==
    IF c > Len(input) THEN rcmap
    ELSE LET s == letterIndexFrom(input[c], 1)
         IN parseRcChannelsFrom(input, c + 1,
                IF s # -1 THEN [rcmap EXCEPT ![s] = ToUint8(c)] ELSE rcmap)
parseRcChannelsFrom(input, c, rcmap) ==
    IF c > Len(input) THEN rcmap
    ELSE LET s == letterIndexFrom(input[c], 1)
         IN parseRcChannelsFrom(input, c + 1,
                IF s # -1 THEN [rcmap EXCEPT ![s] = ToUint8(c - 1)] ELSE rcmap)

parseRcChannels(input, rcmap) == parseRcChannelsFrom(input, 1, rcmap)

\* rx.c:166-172
calculateChannelRemapping(channelMap, channelMapEntryCount, channelToRemap) ==
    IF channelToRemap < channelMapEntryCount
    THEN channelMap[channelToRemap]
    ELSE channelToRemap

\* config.c:220 the zeroed configuration; config.c:321 the default map.
ZeroMap == [i \in 0..(REMAPPABLE_CHANNEL_COUNT - 1) |-> 0]
DefaultMapString == <<"A", "E", "T", "R", "1", "2", "3", "4">>
\* The maps a user can set afterwards ("map" command).
MapStrings == {DefaultMapString,
               <<"T", "A", "E", "R", "1", "2", "3", "4">>,
               <<"R", "E", "A", "T", "4", "3", "2", "1">>}
\* config.c:258
DefaultMidrc == 1500

\* rx.c:200-207
isRxDataDriven == ~feature({"RX_PARALLEL_PWM", "RX_PPM"})

\* The channels of the two arrays of rx.c:213-214 that the driver's
\* channel count reaches.
Channels == 0..(NumChannels - 1)
Slots == 0..(PPM_AND_PWM_SAMPLE_COUNT - 1)

\* Division of C: the quotient is truncated toward zero.
TruncDiv(a, b) == IF a >= 0 THEN a \div b ELSE -((-a) \div b)

\* rx.c:227-230, the sum of the window of one channel, at the width of
\* rcDataMean.
RECURSIVE sumSamples(_, _, _)
sumSamples(window, sampleIndex, sum) ==
    IF sampleIndex >= PPM_AND_PWM_SAMPLE_COUNT THEN sum
    ELSE sumSamples(window, sampleIndex + 1, ToInt16(sum + window[sampleIndex]))

\* A slip: the tick whose counter equals the window size still publishes the raw sample.
calculateNonDataDrivenChannel_LateAverage(st, index, chan, sample) ==
    LET currentSampleIndex == index % PPM_AND_PWM_SAMPLE_COUNT
        samples == [st.rcSamples EXCEPT ![chan][currentSampleIndex] = ToInt16(sample)]
        s1 == [st EXCEPT !.rcSamples = samples]
    IN IF ~st.rxSamplesCollected /\ index <= PPM_AND_PWM_SAMPLE_COUNT
       THEN [s1 EXCEPT !.ret = sample]
       ELSE LET mean == sumSamples(samples[chan], 0, 0)
            IN [s1 EXCEPT !.rxSamplesCollected = TRUE,
                          !.rcDataMean[chan] = mean,
                          !.ret = ToUint16(TruncDiv(mean, PPM_AND_PWM_SAMPLE_COUNT))]

\* rx.c:211-237 on the pipeline state st (a record of rcSamples, rcDataMean,
\* rxSamplesCollected, ...): the state afterwards, the value returned in ret.
calculateNonDataDrivenChannel(st, index, chan, sample) ==
    LET currentSampleIndex == index % PPM_AND_PWM_SAMPLE_COUNT
        samples == [st.rcSamples EXCEPT ![chan][currentSampleIndex] = ToInt16(sample)]
        s1 == [st EXCEPT !.rcSamples = samples]
    IN IF ~st.rxSamplesCollected /\ index < PPM_AND_PWM_SAMPLE_COUNT
       THEN [s1 EXCEPT !.ret = sample]
       ELSE LET mean == sumSamples(samples[chan], 0, 0)
            IN [s1 EXCEPT !.rxSamplesCollected = TRUE,
                          !.rcDataMean[chan] = mean,
                          !.ret = ToUint16(TruncDiv(mean, PPM_AND_PWM_SAMPLE_COUNT))]

\* rx.c:267-269: validate the range.
validateRange_LowerOnly(sample) ==
    IF sample < PULSE_MIN THEN rxConfig.midrc ELSE sample
validateRange_Exclusive(sample) ==
    IF sample <= PULSE_MIN \/ sample >= PULSE_MAX THEN rxConfig.midrc ELSE sample
validateRange(sample) ==
    IF sample < PULSE_MIN \/ sample > PULSE_MAX THEN rxConfig.midrc ELSE sample

\* rx.c:251-275, the body of the channel loop for chan.  raw is the
\* driver's answer for each physical channel, shouldCheckPulse as computed
\* at rx.c:243-248.
processRxChannel(st, index, chan, raw, shouldCheckPulse) ==
    IF rcReadRawFunc = NULL
    THEN [st EXCEPT !.rcData[chan] = ToInt16(rxConfig.midrc)]
    ELSE
      LET rawChannel == calculateChannelRemapping(rxConfig.rcmap, REMAPPABLE_CHANNEL_COUNT, chan)
          read == raw[rawChannel]
          s1 == [st EXCEPT !.rawRead = Append(@, <<rawChannel, read>>),
                           !.fsCalls = IF feature({"FAILSAFE"}) /\ shouldCheckPulse
                                       THEN Append(@, <<"checkPulse", rawChannel, read>>)
                                       ELSE @]
          sample == validateRange(read)
      IN IF isRxDataDriven
         THEN [s1 EXCEPT !.rcData[chan] = ToInt16(sample)]
         ELSE LET s == calculateNonDataDrivenChannel(s1, index, chan, sample)
              IN [s EXCEPT !.rcData[chan] = ToInt16(s.ret)]

\* rx.c:250-275, the channel loop from chan on.
RECURSIVE processRxChannelsFrom(_, _, _, _, _)
processRxChannelsFrom(st, index, chan, raw, shouldCheckPulse) ==
    IF chan >= rxRuntimeConfig.channelCount THEN st
    ELSE processRxChannelsFrom(processRxChannel(st, index, chan, raw, shouldCheckPulse),
                               index, chan + 1, raw, shouldCheckPulse)

\* A slip: the pulse-received state of the PPM driver is not reset.
processRxChannels_KeepsPulseState(st, raw) ==
    LET queried == feature({"FAILSAFE", "RX_PPM"})
        shouldCheckPulse == IF queried THEN st.ppmDataReceived ELSE TRUE
    IN processRxChannelsFrom(st, st.rcSampleIndex, 0, raw, shouldCheckPulse)

\* rx.c:239-276 on the pipeline state st, with rcSampleIndex as in st.
processRxChannels(st, raw) ==
    LET queried == feature({"FAILSAFE", "RX_PPM"})
        shouldCheckPulse == IF queried THEN st.ppmDataReceived ELSE TRUE
        s1 == IF queried THEN [st EXCEPT !.ppmDataReceived = FALSE] ELSE st
    IN processRxChannelsFrom(s1, s1.rcSampleIndex, 0, raw, shouldCheckPulse)

\* rx.c:278-289
processDataDrivenRx_NoEarlyReturn(st, raw) ==
    LET s1 == [st EXCEPT !.fsCalls = Append(@, <<"reset">>)]
        s2 == processRxChannels(s1, raw)
    IN [s2 EXCEPT !.rcDataReceived = FALSE]
processDataDrivenRx_KeepsFlag(st, raw) ==
    IF ~st.rcDataReceived THEN st
    ELSE LET s1 == [st EXCEPT !.fsCalls = Append(@, <<"reset">>)]
         IN processRxChannels(s1, raw)
processDataDrivenRx(st, raw) ==
    IF ~st.rcDataReceived THEN st
    ELSE LET s1 == [st EXCEPT !.fsCalls = Append(@, <<"reset">>)]
             s2 == processRxChannels(s1, raw)
         IN [s2 EXCEPT !.rcDataReceived = FALSE]

\* rx.c:291-296
processNonDataDrivenRx_WrapsEarly(st, raw) ==
    LET s1 == [st EXCEPT !.rcSampleIndex = (@ + 1) % 6]
    IN processRxChannels(s1, raw)
processNonDataDrivenRx_IncrementAfter(st, raw) ==
    LET s1 == processRxChannels(st, raw)
    IN [s1 EXCEPT !.rcSampleIndex = ToUint8(@ + 1)]
processNonDataDrivenRx(st, raw) ==
    LET s1 == [st EXCEPT !.rcSampleIndex = ToUint8(@ + 1)]
    IN processRxChannels(s1, raw)

\* The state the pipeline functions work on, before an operation.
PipelineState ==
    [rcData |-> rcData, rcSamples |-> rcSamples, rcDataMean |-> rcDataMean,
     rxSamplesCollected |-> rxSamplesCollected, rcSampleIndex |-> rcSampleIndex,
     rcDataReceived |-> rcDataReceived, ppmDataReceived |-> ppmDataReceived,
     rawRead |-> << >>, fsCalls |-> << >>, ret |-> 0]

\* The last n elements of a sequence.
LastN(seq, n) == IF Len(seq) <= n THEN seq ELSE SubSeq(seq, Len(seq) - n + 1, Len(seq))

\* The physical channels a tick reads.
ReadChannels ==
    IF rcReadRawFunc = NULL THEN {}
    ELSE {calculateChannelRemapping(rxConfig.rcmap, REMAPPABLE_CHANNEL_COUNT, chan) :
            chan \in 0..(rxRuntimeConfig.channelCount - 1)}

\* rx.c:178-198
updateRx_NoReset ==
    LET queried == feature({"RX_SERIAL"}) \/ feature({"RX_MSP"})
        received == IF queried THEN frameComplete ELSE FALSE
    IN /\ rcDataReceived' = received
       /\ frameComplete' = IF queried THEN FALSE ELSE frameComplete
       /\ fsCalls' = << >>
       /\ UNCHANGED <<configVars, channelVars, gateVars, rssiVars, clockVars,
                      ppmDataReceived, remapQuery>>
       /\ UNCHANGED <<timerVars, mainVars>>
updateRx ==
    LET queried == feature({"RX_SERIAL"}) \/ feature({"RX_MSP"})
        received == IF queried THEN frameComplete ELSE FALSE
    IN /\ rcDataReceived' = received
       /\ frameComplete' = IF queried THEN FALSE ELSE frameComplete
       /\ fsCalls' = IF received /\ feature({"FAILSAFE"}) THEN << <<"reset">> >> ELSE << >>
       /\ UNCHANGED <<configVars, channelVars, gateVars, rssiVars, clockVars,
                      ppmDataReceived, remapQuery>>
       /\ UNCHANGED <<timerVars, mainVars>>

\* rx.c:298-311, called with the clock's value; raw is what the driver
\* answers for each physical channel during the call.
calculateRxChannelsAndUpdateFailsafe_AlwaysIncrements(raw) ==
    \E s1 \in {LET s0 == [PipelineState EXCEPT !.fsCalls =
                            << <<"incrementCounter">> >>]
                IN IF isRxDataDriven THEN processDataDrivenRx(s0, raw)
                                     ELSE processNonDataDrivenRx(s0, raw)} :
       /\ rxUpdateAt' = U32Add(currentTime, U32(0, DELAY_50_HZ))
       /\ sinceRxUpdate' = <<0, 0>>
       /\ rcData' = s1.rcData
       /\ rcSamples' = s1.rcSamples
       /\ rcDataMean' = s1.rcDataMean
       /\ rxSamplesCollected' = s1.rxSamplesCollected
       /\ rcSampleIndex' = s1.rcSampleIndex
       /\ rcDataReceived' = s1.rcDataReceived
       /\ ppmDataReceived' = s1.ppmDataReceived
       /\ rawRead' = s1.rawRead
       /\ fsCalls' = s1.fsCalls
       /\ IF isRxDataDriven
          THEN UNCHANGED <<history, pollTicks>>
          ELSE /\ pollTicks' = IF pollTicks > PPM_AND_PWM_SAMPLE_COUNT + 1 THEN pollTicks
                               ELSE pollTicks + 1
               /\ history' = [chan \in Channels |->
                    IF chan < rxRuntimeConfig.channelCount /\ rcReadRawFunc # NULL
                    THEN LastN(Append(history[chan],
                            validateRange(raw[calculateChannelRemapping(rxConfig.rcmap,
                                            REMAPPABLE_CHANNEL_COUNT, chan)])),
                            PPM_AND_PWM_SAMPLE_COUNT)
                    ELSE history[chan]]
       /\ UNCHANGED <<configVars, rssiVars, clockVars, frameComplete, remapQuery>>
       /\ UNCHANGED <<timerVars, mainVars>>
calculateRxChannelsAndUpdateFailsafe(raw) ==
    \E s1 \in {LET s0 == [PipelineState EXCEPT !.fsCalls =
                            IF feature({"FAILSAFE"}) THEN << <<"incrementCounter">> >> ELSE << >>]
                IN IF isRxDataDriven THEN processDataDrivenRx(s0, raw)
                                     ELSE processNonDataDrivenRx(s0, raw)} :
       /\ rxUpdateAt' = U32Add(currentTime, U32(0, DELAY_50_HZ))
       /\ sinceRxUpdate' = <<0, 0>>
       /\ rcData' = s1.rcData
       /\ rcSamples' = s1.rcSamples
       /\ rcDataMean' = s1.rcDataMean
       /\ rxSamplesCollected' = s1.rxSamplesCollected
       /\ rcSampleIndex' = s1.rcSampleIndex
       /\ rcDataReceived' = s1.rcDataReceived
       /\ ppmDataReceived' = s1.ppmDataReceived
       /\ rawRead' = s1.rawRead
       /\ fsCalls' = s1.fsCalls
       /\ IF isRxDataDriven
          THEN UNCHANGED <<history, pollTicks>>
          ELSE /\ pollTicks' = IF pollTicks > PPM_AND_PWM_SAMPLE_COUNT + 1 THEN pollTicks
                               ELSE pollTicks + 1
               /\ history' = [chan \in Channels |->
                    IF chan < rxRuntimeConfig.channelCount /\ rcReadRawFunc # NULL
                    THEN LastN(Append(history[chan],
                            validateRange(raw[calculateChannelRemapping(rxConfig.rcmap,
                                            REMAPPABLE_CHANNEL_COUNT, chan)])),
                            PPM_AND_PWM_SAMPLE_COUNT)
                    ELSE history[chan]]
       /\ UNCHANGED <<configVars, rssiVars, clockVars, frameComplete, remapQuery>>
       /\ UNCHANGED <<timerVars, mainVars>>

\* rx.c:202 and rx.c:345: (int32_t)(currentTime - updateAt) >= 0
int32Elapsed_Unsigned(time, updateAt) ==
    time[1] > updateAt[1] \/ (time[1] = updateAt[1] /\ time[2] >= updateAt[2])
int32Elapsed(time, updateAt) == I32NonNegative(U32Sub(time, updateAt))

\* A slip: the deadline itself is not yet due.
shouldProcessRx_AfterDeadline(time) ==
    rcDataReceived \/ (int32Elapsed(time, rxUpdateAt) /\ time # rxUpdateAt)

\* rx.c:200-203
shouldProcessRx(time) == rcDataReceived \/ int32Elapsed(time, rxUpdateAt)

\* rx.c:336  RSSI_SCALE, a float constant
RSSI_SCALE == FloatDivInt(4095, 100)

\* rx.c:324-333: the value assigned to rssi.
updateRSSIPWM_ChannelC ==
    LET pwmRssi == rcData[rxConfig.rssi_channel]
    IN ToUint16(FloatToUint(FloatMulInt(
            FloatDivInt(constrain(pwmRssi - 1000, 0, 1000), 1000), 1023)))
updateRSSIPWM ==
    LET pwmRssi == rcData[rxConfig.rssi_channel - 1]
    IN ToUint16(FloatToUint(FloatMulInt(
            FloatDivInt(constrain(pwmRssi - 1000, 0, 1000), 1000), 1023)))

\* The ADC samples are counted up to this many.
MaxAdcSamples == 18

\* rx.c:357-361, the sum of the ADC window at the width of adcRssiMean.
RECURSIVE sumAdcSamples(_, _, _)
sumAdcSamples(window, sampleIndex, sum) ==
    IF sampleIndex >= RSSI_ADC_SAMPLE_COUNT THEN sum
    ELSE sumAdcSamples(window, sampleIndex + 1, ToInt16(sum + window[sampleIndex]))

\* rx.c:349-365 with adcGetChannel(ADC_RSSI) = adc: the new window index,
\* the new window and the value assigned to rssi.
updateRSSIADCSample_NoAdvance(adc) ==
    LET rssiPercentage == ToUint8(FloatToUint(FloatDivIntByFloat(adc, RSSI_SCALE)))
        index == adcRssiSampleIndex % RSSI_ADC_SAMPLE_COUNT
        samples == [s \in DOMAIN adcRssiSamples |->
                        IF s = index THEN rssiPercentage ELSE adcRssiSamples[s]]
        adcRssiMean == TruncDiv(sumAdcSamples(samples, 0, 0), RSSI_ADC_SAMPLE_COUNT)
    IN [adcRssiSampleIndex |-> index, adcRssiSamples |-> samples,
        rssiPercentage |-> rssiPercentage,
        rssi |-> ToUint16(FloatToUint(FloatMulInt(
                    FloatDivInt(constrain(adcRssiMean, 0, 100), 100), 1023)))]
\* A slip: the sample is written before the index is advanced.
updateRSSIADCSample_WriteThenAdvance(adc) ==
    LET rssiPercentage == ToUint8(FloatToUint(FloatDivIntByFloat(adc, RSSI_SCALE)))
        samples == [s \in DOMAIN adcRssiSamples |->
                        IF s = adcRssiSampleIndex THEN rssiPercentage ELSE adcRssiSamples[s]]
        adcRssiMean == TruncDiv(sumAdcSamples(samples, 0, 0), RSSI_ADC_SAMPLE_COUNT)
    IN [adcRssiSampleIndex |-> (adcRssiSampleIndex + 1) % RSSI_ADC_SAMPLE_COUNT,
        adcRssiSamples |-> samples,
        rssiPercentage |-> rssiPercentage,
        rssi |-> ToUint16(FloatToUint(FloatMulInt(
                    FloatDivInt(constrain(adcRssiMean, 0, 100), 100), 1023)))]
updateRSSIADCSample(adc) ==
    LET rssiPercentage == ToUint8(FloatToUint(FloatDivIntByFloat(adc, RSSI_SCALE)))
        index == (adcRssiSampleIndex + 1) % RSSI_ADC_SAMPLE_COUNT
        samples == [s \in DOMAIN adcRssiSamples |->
                        IF s = index THEN rssiPercentage ELSE adcRssiSamples[s]]
        adcRssiMean == TruncDiv(sumAdcSamples(samples, 0, 0), RSSI_ADC_SAMPLE_COUNT)
    IN [adcRssiSampleIndex |-> index, adcRssiSamples |-> samples,
        rssiPercentage |-> rssiPercentage,
        rssi |-> ToUint16(FloatToUint(FloatMulInt(
                    FloatDivInt(constrain(adcRssiMean, 0, 100), 100), 1023)))]

\* A slip: the ADC sampling is gated by the deadline of the channel sampling.
updateRSSIADC_SharedDeadline(time, adc) ==
    IF ~int32Elapsed(time, rxUpdateAt)
    THEN UNCHANGED <<rssi, adcRssiSamples, adcRssiSampleIndex, rssiUpdateAt,
                     sinceRssiUpdate, rssiInput, adcGhost>>
    ELSE \E r \in {updateRSSIADCSample(adc)} :
            /\ rssiUpdateAt' = U32Add(time, U32(0, DELAY_50_HZ))
            /\ sinceRssiUpdate' = <<0, 0>>
            /\ adcRssiSampleIndex' = r.adcRssiSampleIndex
            /\ adcRssiSamples' = r.adcRssiSamples
            /\ rssiInput' = <<adc>>
            /\ rssi' = r.rssi
            /\ adcHistory' = LastN(Append(adcHistory, r.rssiPercentage), RSSI_ADC_SAMPLE_COUNT)
            /\ adcTaken' = IF adcTaken < MaxAdcSamples THEN adcTaken + 1 ELSE adcTaken

\* rx.c:338-366 with adcGetChannel(ADC_RSSI) = adc.
updateRSSIADC(time, adc) ==
    IF ~int32Elapsed(time, rssiUpdateAt)
    THEN UNCHANGED <<rssi, adcRssiSamples, adcRssiSampleIndex, rssiUpdateAt,
                     sinceRssiUpdate, rssiInput, adcGhost>>
    ELSE \E r \in {updateRSSIADCSample(adc)} :
            /\ rssiUpdateAt' = U32Add(time, U32(0, DELAY_50_HZ))
            /\ sinceRssiUpdate' = <<0, 0>>
            /\ adcRssiSampleIndex' = r.adcRssiSampleIndex
            /\ adcRssiSamples' = r.adcRssiSamples
            /\ rssiInput' = <<adc>>
            /\ rssi' = r.rssi
            /\ adcHistory' = LastN(Append(adcHistory, r.rssiPercentage), RSSI_ADC_SAMPLE_COUNT)
            /\ adcTaken' = IF adcTaken < MaxAdcSamples THEN adcTaken + 1 ELSE adcTaken

\* A slip: the ADC is sampled whenever no channel carries the RSSI.
updateRSSI_AdcByDefault(adc) ==
    /\ IF rxConfig.rssi_channel > 0
       THEN /\ rssi' = updateRSSIPWM
            /\ rssiInput' = <<rcData[rxConfig.rssi_channel - 1]>>
            /\ UNCHANGED <<adcRssiSamples, adcRssiSampleIndex, rssiUpdateAt, sinceRssiUpdate,
                           adcGhost>>
       ELSE updateRSSIADC(currentTime, adc)
    /\ UNCHANGED <<configVars, channelVars, frameVars, gateVars, clockVars, remapQuery>>
    /\ UNCHANGED <<timerVars, mainVars>>

\* rx.c:368-376
updateRSSI_AdcFirst(adc) ==
    /\ IF feature({"RSSI_ADC"})
       THEN updateRSSIADC(currentTime, adc)
       ELSE IF rxConfig.rssi_channel > 0
       THEN /\ rssi' = updateRSSIPWM
            /\ rssiInput' = <<rcData[rxConfig.rssi_channel - 1]>>
            /\ UNCHANGED <<adcRssiSamples, adcRssiSampleIndex, rssiUpdateAt, sinceRssiUpdate,
                           adcGhost>>
       ELSE UNCHANGED <<rssi, adcRssiSamples, adcRssiSampleIndex, rssiUpdateAt,
                        sinceRssiUpdate, rssiInput, adcGhost>>
    /\ UNCHANGED <<configVars, channelVars, frameVars, gateVars, clockVars, remapQuery>>
    /\ UNCHANGED <<timerVars, mainVars>>
updateRSSI(adc) ==
    /\ IF rxConfig.rssi_channel > 0
       THEN /\ rssi' = updateRSSIPWM
            /\ rssiInput' = <<rcData[rxConfig.rssi_channel - 1]>>
            /\ UNCHANGED <<adcRssiSamples, adcRssiSampleIndex, rssiUpdateAt, sinceRssiUpdate,
                           adcGhost>>
       ELSE IF feature({"RSSI_ADC"})
       THEN updateRSSIADC(currentTime, adc)
       ELSE UNCHANGED <<rssi, adcRssiSamples, adcRssiSampleIndex, rssiUpdateAt,
                        sinceRssiUpdate, rssiInput, adcGhost>>
    /\ UNCHANGED <<configVars, channelVars, frameVars, gateVars, clockVars, remapQuery>>
    /\ UNCHANGED <<timerVars, mainVars>>

\* A span of time is kept as <<quarters, rest>>: quarters * 2^30 + rest, with
\* rest < 2^30.
Quarter == 2 ^ 30
SpanAdd(a, b) == <<a[1] + b[1] + ((a[2] + b[2]) \div Quarter), (a[2] + b[2]) % Quarter>>
\* The span as the uint32_t the microsecond counter advances by.
SpanToU32(a) == U32(((a[1] % 4) * 16384 + (a[2] \div 65536)) % 65536, a[2] % 65536)

\* The spans the clock advances by between two operations.
ClockSpans == {<<0, DELAY_50_HZ - 1>>, <<0, DELAY_50_HZ>>, <<0, Quarter - 30000>>, <<1, 0>>}
\* The clock is followed for this many advances.
MaxClockSteps == 6

\* The microsecond counter advances by step.
ClockAdvance(step) ==
    /\ clockSteps < MaxClockSteps
    /\ clockSteps' = clockSteps + 1
    /\ currentTime' = U32Add(currentTime, SpanToU32(step))
    /\ sinceRxUpdate' = SpanAdd(sinceRxUpdate, step)
    /\ sinceRssiUpdate' = SpanAdd(sinceRssiUpdate, step)
    /\ UNCHANGED <<configVars, channelVars, frameVars, rxUpdateAt, rssi, adcRssiSamples,
                   adcRssiSampleIndex, rssiUpdateAt, rssiInput, adcGhost, remapQuery>>
    /\ UNCHANGED <<timerVars, mainVars>>

\* The active frame driver completes a frame.
FrameArrives ==
    /\ rcReadRawFunc # NULL
    /\ feature({"RX_SERIAL", "RX_MSP"})
    /\ ~frameComplete
    /\ frameComplete' = TRUE
    /\ UNCHANGED <<configVars, channelVars, gateVars, rssiVars, clockVars,
                   rcDataReceived, ppmDataReceived, fsCalls, remapQuery>>
    /\ UNCHANGED <<timerVars, mainVars>>

\* The PPM driver captures a pulse.
PpmPulse ==
    /\ feature({"RX_PPM"})
    /\ ~ppmDataReceived
    /\ ppmDataReceived' = TRUE
    /\ UNCHANGED <<configVars, channelVars, gateVars, rssiVars, clockVars,
                   rcDataReceived, frameComplete, fsCalls, remapQuery>>
    /\ UNCHANGED <<timerVars, mainVars>>

\* rx.h: the length of rcData.
MAX_SUPPORTED_RC_CHANNEL_COUNT == 18

\* A setup is what is stored in the configuration before the boot, whether
\* the serial receiver driver can be brought up, and the channel count a
\* serial driver that fails has announced by then.
Setup(features, serialOk, map, rssi_channel) ==
    [features |-> features, serialOk |-> serialOk, map |-> map, rssi_channel |-> rssi_channel,
     leftCount |-> 0]

\* rx.c:129-149 with the outcome of the provider's init function (FALSE also
\* for a provider that is none of the cases): the features and the raw-read
\* function afterwards.
serialRxInit_KeepsFeature(features, enabled) ==
    IF enabled THEN [features |-> features, rcReadRawFunc |-> "serialReadRawRC"]
    ELSE [features |-> features, rcReadRawFunc |-> NULL]
serialRxInit(features, enabled) ==
    IF enabled THEN [features |-> features, rcReadRawFunc |-> "serialReadRawRC"]
    ELSE [features |-> featureClear(features, {"RX_SERIAL"}), rcReadRawFunc |-> NULL]

\* rx.c:102-126 on the validated features: the features, the raw-read
\* function and the channel count afterwards.  Each driver's init function
\* stores its raw-read function and its channel count.
rxInit(features, serialOk, leftCount) ==
    LET serial == IF "RX_SERIAL" \in features THEN serialRxInit(features, serialOk)
                  ELSE [features |-> features, rcReadRawFunc |-> NULL]
        after == serial.features
        msp == IF "RX_MSP" \in after THEN "rxMspReadRawRC" ELSE serial.rcReadRawFunc
        func == IF after \cap {"RX_PPM", "RX_PARALLEL_PWM"} # {} THEN "pwmReadRawRC" ELSE msp
    IN [features |-> after, rcReadRawFunc |-> func,
        channelCount |-> IF func # NULL THEN NumChannels ELSE leftCount]

\* The state of the pipeline once the boot has run resetConf's defaults with
\* the setup on top (config.c:220, 258, 261, 321), validateAndFixConfig
\* (config.c:440-458) and rxInit (rx.c:102-149); the statics of rx.c are
\* zero and the clock starts at zero.
Boot(setup) ==
    LET valid == validateAndFixConfig(setup.features)
        up == rxInit(valid, setup.serialOk, setup.leftCount)
    IN /\ enabledFeatures = up.features
       /\ bootSetup = setup
       /\ rxConfig = [midrc |-> DefaultMidrc,
                      rcmap |-> parseRcChannels(setup.map, parseRcChannels(DefaultMapString, ZeroMap)),
                      rssi_channel |-> setup.rssi_channel]
       /\ mapString = setup.map
       /\ rcReadRawFunc = up.rcReadRawFunc
       /\ rxRuntimeConfig = [channelCount |-> up.channelCount]
       /\ rcData = [i \in 0..(MAX_SUPPORTED_RC_CHANNEL_COUNT - 1) |-> DefaultMidrc]
       /\ rcDataReceived = FALSE
       /\ rxUpdateAt = U32Zero
       /\ rcSampleIndex = 0
       /\ rcSamples = [chan \in Channels |-> [s \in Slots |-> 0]]
       /\ rcDataMean = [chan \in Channels |-> 0]
       /\ rxSamplesCollected = FALSE
       /\ rssi = 0
       /\ adcRssiSamples = [s \in 0..(RSSI_ADC_SAMPLE_COUNT - 1) |-> 0]
       /\ adcRssiSampleIndex = 0
       /\ rssiUpdateAt = U32Zero
       /\ frameComplete = FALSE
       /\ ppmDataReceived = FALSE
       /\ currentTime = U32Zero
       /\ rawRead = << >>
       /\ fsCalls = << >>
       /\ history = [chan \in Channels |-> << >>]
       /\ pollTicks = 0
       /\ sinceRxUpdate = <<0, DELAY_50_HZ>>
       /\ sinceRssiUpdate = <<0, DELAY_50_HZ>>
       /\ clockSteps = 0
       /\ rssiInput = << >>
       /\ remapQuery = << >>
       /\ adcHistory = << >>
       /\ adcTaken = 0
       /\ loopPc = Idle
       /\ latched = [c \in 0..(MAX_SUPPORTED_RC_CHANNEL_COUNT - 1) |-> 0]
       /\ consumed = [i \in 0..(MAX_SUPPORTED_RC_CHANNEL_COUNT - 1) |-> DefaultMidrc]
       /\ completeRcData = [i \in 0..(MAX_SUPPORTED_RC_CHANNEL_COUNT - 1) |-> DefaultMidrc]

vars == <<timerVars, rxVars, mainVars>>

TimerInit == TimerInitState /\ Boot(Setup({}, TRUE, DefaultMapString, 0))

TimerNext ==
    \/ Register
    \/ Interrupt
    \/ IRQReturn
    \/ timerInit

SpecTimer == TimerInit /\ [][TimerNext]_vars

(***************************************************************************)
(* The set-up of the inputs: the drivers register their callbacks and      *)
(* enable their interrupt sources, for entries of the hardware table and   *)
(* for pairs the dispatcher has no slot for.                               *)
(***************************************************************************)

\* A peripheral that is not in the timers table of this build, and a channel
\* value that is none of the four channel constants.
UnknownTimer == "TIM5"
UnknownChannel == TIM_Channel_1 + 1

RegisterAny ==
    \E tim \in ModelTimers \cup {UnknownTimer}, channel \in ModelChannels \cup {UnknownChannel},
       cb \in CallbackPairs :
        configureTimerChannelCallbacks(tim, channel, 1, cb[1], cb[2])

ConfigureCapture ==
    \E tim \in ModelTimers, channel \in ModelChannels, reference \in References,
       cb \in CallbackPairs :
        configureTimerCaptureCompareInterrupt(tim, channel, reference, cb[1], cb[2])

SetupInit ==
    /\ DispatcherInitState
    /\ beyondTables \in Layouts
    /\ Boot(Setup({}, TRUE, DefaultMapString, 0))
SetupNext == RegisterAny \/ ConfigureCapture
SpecSetup == SetupInit /\ [][SetupNext]_vars

(***************************************************************************)
(* The channel map: the "map" setting is parsed, channels are looked up.   *)
(***************************************************************************)

\* A string longer than the published channel array, with a channel letter
\* at its end.
LongMapString == [i \in 1..(MAX_SUPPORTED_RC_CHANNEL_COUNT + 1) |->
                    IF i <= MAX_SUPPORTED_RC_CHANNEL_COUNT THEN "X" ELSE "A"]

\* What the user may type as a map: not every letter need be a channel
\* letter, not every channel letter need occur.
MapInputs == MapStrings \cup {<<"X", "1", "R">>, LongMapString}

\* rx.c:313-322 on the configuration in use.
SetMap(input) ==
    /\ rxConfig' = [rxConfig EXCEPT !.rcmap = parseRcChannels(input, @)]
    /\ mapString' = input
    /\ remapQuery' = << >>
    /\ UNCHANGED <<enabledFeatures, rxRuntimeConfig, rcReadRawFunc, bootSetup, channelVars,
                   frameVars, gateVars, rssiVars, clockVars>>
    /\ UNCHANGED <<timerVars, mainVars>>

\* rx.c:257: one lookup of a logical channel, any uint8_t.
Remap(chan) ==
    /\ remapQuery' = <<[chan |-> chan,
                        rawChannel |-> calculateChannelRemapping(rxConfig.rcmap,
                                            REMAPPABLE_CHANNEL_COUNT, chan)]>>
    /\ UNCHANGED <<configVars, channelVars, frameVars, gateVars, rssiVars, clockVars>>
    /\ UNCHANGED <<timerVars, mainVars>>

ParseMap == \E input \in MapInputs : SetMap(input)
Lookup == \E chan \in 0..255 : Remap(chan)

MapInit == TimerInitState /\ Boot(Setup({}, TRUE, DefaultMapString, 0))
MapNext == ParseMap \/ Lookup
SpecMap == MapInit /\ [][MapNext]_vars

(***************************************************************************)
(* An entry point without a table entry: the build compiles the interrupt  *)
(* entry of a peripheral that its timers table does not list (timer.c:143  *)
(* has no TIM15, timer.c:433-436 is the entry of TIM15), and that entry    *)
(* runs with a flag pending.  UnknownTimer stands for that peripheral.     *)
(***************************************************************************)

\* What the build holds behind the registration table, read as a slot:
\* zeroes, or words that are not zero.
GarbageSlots ==
    { ZeroTimerConfig,
      [channel |-> 0, edgeCallback |-> "garbage", overflowCallback |-> "garbage",
       reference |-> 255] }

\* The walk over the timers table for a peripheral that is not in it stops
\* right behind the table, one word further on, one table length further
\* on, or never.
StrayLayouts ==
    [timers : {MAX_TIMERS, MAX_TIMERS + 1, MAX_TIMERS * CC_CHANNELS_PER_TIMER, NEVER},
     channels : {NEVER},
     slot : GarbageSlots]

\* The first flag the handler finds pending (timer.c:358, 376-391).
FirstPending(status) ==
    IF TIM_IT_Update \in status THEN TIM_IT_Update
    ELSE TIM_IT_CC(CHOOSE ci \in 0..(CC_CHANNELS_PER_TIMER - 1) :
                    /\ TIM_IT_CC(ci) \in status
                    /\ \A cj \in 0..(ci - 1) : TIM_IT_CC(cj) \notin status)

\* timer.c:433-436 and 351-405: the entry of the unlisted peripheral with
\* the sources in status pending.  When the table walk of its first lookup
\* never ends the entry does not return.
StrayEntry ==
    \E status \in SUBSET ITSources :
        /\ status # {}
        /\ irqTim = NULL
        /\ ~spinning
        /\ irqTim' = UnknownTimer
        /\ irqStatus' = status
        /\ IF lookupTimerIndex(UnknownTimer) = NEVER
           THEN /\ spinning' = TRUE
                /\ irqCleared' = {FirstPending(status)}
                /\ calls' = << >>
           ELSE /\ spinning' = FALSE
                /\ irqCleared' = timCCxHandlerCleared(UnknownTimer, status)
                /\ calls' = timCCxHandlerCalls(UnknownTimer, status)
        /\ UNCHANGED <<timerConfig, regCount, lastRegistration, itEnabled, beyondTables>>
        /\ UNCHANGED <<rxVars, mainVars>>

StrayReturn == ~spinning /\ IRQReturn

StrayInit ==
    /\ DispatcherInitState
    /\ beyondTables \in StrayLayouts
    /\ Boot(Setup({}, TRUE, DefaultMapString, 0))
StrayNext == ConfigureCapture \/ StrayEntry \/ StrayReturn
SpecStray == StrayInit /\ [][StrayNext]_vars

(***************************************************************************)
(* A peripheral with all four inputs in use: the set-up registers the four *)
(* channels of a peripheral with four calls in a row, then the interrupts  *)
(* of the peripherals enter.                                               *)
(***************************************************************************)

\* timer.c:301-308, called for channel 1..4 of tim in turn, the interrupts
\* of tim not entering in between.
RegisterFourInputs ==
    \E tim \in ModelTimers, reference \in References, cb \in CallbackPairs :
        /\ irqTim = NULL
        /\ ~spinning
        /\ capturePc = Idle
        /\ \A channel \in ModelChannels : ~lastRegistration[<<tim, channel>>].registered
        /\ regCount' = regCount + CC_CHANNELS_PER_TIMER
        /\ timerConfig' = [i \in DOMAIN timerConfig |->
                IF \E channel \in ModelChannels : i = lookupTimerConfigIndex(tim, channel)
                THEN [channel |-> CHOOSE channel \in ModelChannels :
                                        i = lookupTimerConfigIndex(tim, channel),
                      edgeCallback |-> cb[1], overflowCallback |-> cb[2],
                      reference |-> reference]
                ELSE timerConfig[i]]
        /\ lastRegistration' = [p \in DOMAIN lastRegistration |->
                IF p[1] = tim
                THEN [registered |-> TRUE, reference |-> reference,
                      edgeCallback |-> cb[1], overflowCallback |-> cb[2]]
                ELSE lastRegistration[p]]
        /\ itEnabled' = itEnabled
                \cup UNION {configureTimerInputCaptureCompareChannel(tim, channel) :
                                channel \in ModelChannels}
                \cup (IF cb[2] # NULL THEN {<<tim, TIM_IT_Update>>} ELSE {})
        /\ UNCHANGED <<irqTim, irqStatus, irqCleared, calls, beyondTables, spinning>>
        /\ UNCHANGED <<rxVars, mainVars>>

FanOutInit == TimerInit
FanOutNext ==
    \/ RegisterFourInputs
    \/ ConfigureCapture
    \/ Interrupt
    \/ IRQReturn
SpecFanOut == FanOutInit /\ [][FanOutNext]_vars

(***************************************************************************)
(* The set-up of the inputs with the interrupts live: a call of            *)
(* configureTimerCaptureCompareInterrupt runs store by store, and an       *)
(* interrupt of a peripheral enters between any two of its steps once a    *)
(* source of that peripheral is enabled.                                   *)
(***************************************************************************)

\* timer.c:276-279: the fields of a slot that a registration stores.
SlotFields == {"edgeCallback", "overflowCallback", "channel", "reference"}

\* timer.c:301-302, 269-274: the call is entered and the slot is looked up;
\* without a slot nothing is stored.
CaptureEnter(tim, channel, reference, edgeCallback, overflowCallback) ==
    /\ irqTim = NULL
    /\ capturePc = Idle
    /\ ~spinning
    /\ lookupReturns(tim, channel)
    /\ regCount < MaxRegistrations
    /\ regCount' = regCount + 1
    /\ LET timerConfigIndex == lookupTimerConfigIndex(tim, channel)
       IN capturePc' = [step |-> "store", tim |-> tim, channel |-> channel,
                        reference |-> reference, edgeCallback |-> edgeCallback,
                        overflowCallback |-> overflowCallback,
                        timerConfigIndex |-> timerConfigIndex,
                        pending |-> IF timerConfigIndex >= MAX_TIMERS * CC_CHANNELS_PER_TIMER
                                    THEN {} ELSE SlotFields]
    /\ lastRegistration' =
            [p \in DOMAIN lastRegistration |->
                IF p = <<tim, channel>>
                THEN [registered |-> TRUE, reference |-> reference,
                      edgeCallback |-> edgeCallback, overflowCallback |-> overflowCallback]
                ELSE lastRegistration[p]]
    /\ UNCHANGED <<timerConfig, irqTim, irqStatus, irqCleared, calls, hwVars>>
    /\ UNCHANGED <<loopPc, latched, consumed, completeRcData, eeprom>>
    /\ UNCHANGED rxVars

\* timer.c:276-279: one of the four stores into the slot.  They are plain
\* stores to different fields, which the build may emit in any order.
CaptureStore(field) ==
    /\ irqTim = NULL
    /\ capturePc.step = "store"
    /\ field \in capturePc.pending
    /\ timerConfig' = [timerConfig EXCEPT ![capturePc.timerConfigIndex][field] = capturePc[field]]
    /\ capturePc' = [capturePc EXCEPT !.pending = @ \ {field}]
    /\ UNCHANGED <<regCount, lastRegistration, irqTim, irqStatus, irqCleared, calls, hwVars>>
    /\ UNCHANGED <<loopPc, latched, consumed, completeRcData, eeprom>>
    /\ UNCHANGED rxVars

\* timer.c:303: the capture-compare source of the channel is enabled.
CaptureEnableChannel ==
    /\ irqTim = NULL
    /\ capturePc.step = "store"
    /\ capturePc.pending = {}
    /\ itEnabled' = itEnabled
            \cup configureTimerInputCaptureCompareChannel(capturePc.tim, capturePc.channel)
    /\ capturePc' = [capturePc EXCEPT !.step = "update"]
    /\ UNCHANGED <<timerConfig, regCount, lastRegistration, irqTim, irqStatus, irqCleared,
                   calls, beyondTables, spinning>>
    /\ UNCHANGED <<loopPc, latched, consumed, completeRcData, eeprom>>
    /\ UNCHANGED rxVars

\* timer.c:304-307: the update source is enabled for an overflow callback,
\* and the call returns.
CaptureEnableUpdate ==
    /\ irqTim = NULL
    /\ capturePc.step = "update"
    /\ itEnabled' = itEnabled
            \cup (IF capturePc.overflowCallback # NULL
                  THEN {<<capturePc.tim, TIM_IT_Update>>} ELSE {})
    /\ capturePc' = Idle
    /\ UNCHANGED <<timerConfig, regCount, lastRegistration, irqTim, irqStatus, irqCleared,
                   calls, beyondTables, spinning>>
    /\ UNCHANGED <<loopPc, latched, consumed, completeRcData, eeprom>>
    /\ UNCHANGED rxVars

\* The set-up registers the channels of the peripherals one after another,
\* each pair once.
LiveEnter ==
    \E tim \in ModelTimers, channel \in ModelChannels, reference \in References,
       cb \in CallbackPairs :
        /\ ~lastRegistration[<<tim, channel>>].registered
        /\ CaptureEnter(tim, channel, reference, cb[1], cb[2])

LiveStore == \E field \in SlotFields : CaptureStore(field)

\* An interrupt of a peripheral enters with enabled sources pending.
LiveInterrupt ==
    \E tim \in ModelTimers, status \in SUBSET ITSources :
        /\ status # {}
        /\ \A it \in status : <<tim, it>> \in itEnabled
        /\ TIMx_IRQHandler(tim, status)

LiveInit == TimerInitState /\ Boot(Setup({}, TRUE, DefaultMapString, 0))
LiveNext ==
    \/ LiveEnter
    \/ LiveStore
    \/ CaptureEnableChannel
    \/ CaptureEnableUpdate
    \/ LiveInterrupt
    \/ IRQReturn
SpecLive == LiveInit /\ [][LiveNext]_vars

(***************************************************************************)
(* The main loop and the interrupts: a call of                             *)
(* calculateRxChannelsAndUpdateFailsafe runs channel by channel, the       *)
(* interrupt handlers run between any two of its steps, and the consumer   *)
(* of the channel array runs in the main loop between two calls.           *)
(***************************************************************************)

\* The main loop is followed for this many POLL ticks.
MaxLoopTicks == 2

LoopSetups ==
    { Setup({"RX_PPM", "FAILSAFE"}, TRUE, DefaultMapString, 0),
      Setup({"RX_SERIAL", "FAILSAFE"}, TRUE, DefaultMapString, 0) }

\* The samples the driver latches.
LatchValues == {PULSE_MIN, PULSE_MAX}

\* rx.c:298-304, 278-285 or 291-295, and 239-249: the call up to the
\* channel loop.  Without a frame a data-driven receiver returns at once.
LoopEnter ==
    /\ irqTim = NULL
    /\ capturePc = Idle
    /\ loopPc = Idle
    /\ pollTicks < MaxLoopTicks
    /\ rxUpdateAt' = U32Add(currentTime, U32(0, DELAY_50_HZ))
    /\ sinceRxUpdate' = <<0, 0>>
    /\ LET incremented == IF feature({"FAILSAFE"}) THEN << <<"incrementCounter">> >> ELSE << >>
           entered == ~isRxDataDriven \/ rcDataReceived
           queried == feature({"FAILSAFE", "RX_PPM"})
       IN /\ fsCalls' = IF isRxDataDriven /\ rcDataReceived
                        THEN Append(incremented, <<"reset">>) ELSE incremented
          /\ rcSampleIndex' = IF isRxDataDriven THEN rcSampleIndex
                              ELSE ToUint8(rcSampleIndex + 1)
          /\ pollTicks' = IF isRxDataDriven THEN pollTicks ELSE pollTicks + 1
          /\ ppmDataReceived' = IF entered /\ queried THEN FALSE ELSE ppmDataReceived
          /\ loopPc' = IF entered
                       THEN [step |-> "channel", chan |-> 0,
                             shouldCheckPulse |-> IF queried THEN ppmDataReceived ELSE TRUE]
                       ELSE Idle
    /\ rawRead' = << >>
    /\ UNCHANGED <<rcData, rcSamples, rcDataMean, rxSamplesCollected, history>>
    /\ UNCHANGED <<configVars, rssiVars, clockVars, rcDataReceived, frameComplete, remapQuery>>
    /\ UNCHANGED <<timerVars, capturePc, latched, consumed, completeRcData, eeprom>>

\* rx.c:251-275: one pass of the channel loop; the driver answers with the
\* sample it holds at this moment.
LoopChannel ==
    /\ irqTim = NULL
    /\ loopPc.step = "channel"
    /\ loopPc.chan < rxRuntimeConfig.channelCount
    /\ \E s1 \in {processRxChannel([PipelineState EXCEPT !.rawRead = rawRead,
                                                         !.fsCalls = fsCalls],
                                    rcSampleIndex, loopPc.chan, latched,
                                    loopPc.shouldCheckPulse)} :
          /\ rcData' = s1.rcData
          /\ rcSamples' = s1.rcSamples
          /\ rcDataMean' = s1.rcDataMean
          /\ rxSamplesCollected' = s1.rxSamplesCollected
          /\ rawRead' = s1.rawRead
          /\ fsCalls' = s1.fsCalls
    /\ loopPc' = [loopPc EXCEPT !.chan = @ + 1]
    /\ UNCHANGED <<rcSampleIndex, history, pollTicks, rcDataReceived, frameComplete,
                   ppmDataReceived>>
    /\ UNCHANGED <<configVars, gateVars, rssiVars, clockVars, remapQuery>>
    /\ UNCHANGED <<timerVars, capturePc, latched, consumed, completeRcData, eeprom>>

\* rx.c:250, 276, 287 and 311: the loop ends and the call returns; a
\* data-driven receiver clears its flag.
LoopReturn ==
    /\ irqTim = NULL
    /\ loopPc.step = "channel"
    /\ loopPc.chan >= rxRuntimeConfig.channelCount
    /\ rcDataReceived' = IF isRxDataDriven THEN FALSE ELSE rcDataReceived
    /\ loopPc' = Idle
    /\ completeRcData' = rcData
    /\ UNCHANGED <<configVars, channelVars, gateVars, rssiVars, clockVars,
                   frameComplete, ppmDataReceived, fsCalls, remapQuery>>
    /\ UNCHANGED <<timerVars, capturePc, latched, consumed, eeprom>>

\* rx.c:178-198, called by the main loop between two ticks.
LoopUpdateRx ==
    /\ irqTim = NULL
    /\ loopPc = Idle
    /\ updateRx

\* The main loop registers the capture of one input before it starts.
LoopRegister ==
    /\ loopPc = Idle
    /\ pollTicks = 0
    /\ regCount = 0
    /\ configureTimerCaptureCompareInterrupt("TIM2", TIM_Channel_1, 0, "edgeCallback", NULL)

\* Interrupt context: the handler of the receiver driver stores a sample
\* into the driver's buffer.  It runs to completion between two steps of
\* the main loop.
Latch ==
    \E c \in ReadChannels, v \in LatchValues :
        /\ latched[c] # v
        /\ latched' = [latched EXCEPT ![c] = v]
        /\ UNCHANGED <<timerVars, rxVars, capturePc, loopPc, consumed, completeRcData, eeprom>>

\* The consumer of the channel array runs in the main loop between two
\* calls of the pipeline and reads the whole array.
Consume ==
    /\ irqTim = NULL
    /\ loopPc = Idle
    /\ consumed # rcData
    /\ consumed' = rcData
    /\ UNCHANGED <<timerVars, rxVars, capturePc, loopPc, latched, completeRcData, eeprom>>

LoopInit == TimerInitState /\ \E setup \in LoopSetups : Boot(setup)
LoopNext ==
    \/ LoopRegister
    \/ LoopEnter
    \/ LoopChannel
    \/ LoopReturn
    \/ LoopUpdateRx
    \/ Consume
    \/ Latch
    \/ FrameArrives
    \/ PpmPulse
    \/ LiveInterrupt
    \/ IRQReturn
SpecLoop == LoopInit /\ [][LoopNext]_vars

(***************************************************************************)
(* The pipeline at work: frames and pulses arrive, the main loop calls     *)
(* updateRx and calculateRxChannelsAndUpdateFailsafe.                      *)
(***************************************************************************)

\* What a frame driver reports for a channel, and what the pulse
\* measurement of a PWM or PPM input does: values at and next to the ends of
\* the window.
PushRawValues == {PULSE_MIN - 1, PULSE_MIN, PULSE_MAX, PULSE_MAX + 1}
PwmRawValues == {PULSE_MIN - 1, PULSE_MIN}
PpmRawValues == {DefaultMidrc, PULSE_MAX + 1}
RawValues == IF isRxDataDriven THEN PushRawValues
             ELSE IF feature({"RX_PPM"}) THEN PpmRawValues
             ELSE PwmRawValues

\* The receivers the pipeline is booted with.
RxSetups ==
    { Setup({"RX_PPM", "FAILSAFE"}, TRUE, DefaultMapString, 0),
      Setup({}, TRUE, <<"T", "A", "E", "R", "1", "2", "3", "4">>, 0),
      Setup({"RX_SERIAL", "FAILSAFE"}, TRUE, <<"R", "E", "A", "T", "4", "3", "2", "1">>, 0),
      Setup({"RX_MSP"}, TRUE, DefaultMapString, 0) }

UpdateRx == updateRx

RxTick == \E raw \in [ReadChannels -> RawValues] : calculateRxChannelsAndUpdateFailsafe(raw)

RxInit == TimerInitState /\ \E setup \in RxSetups : Boot(setup)
RxNext == UpdateRx \/ RxTick \/ FrameArrives \/ PpmPulse
SpecRx == RxInit /\ [][RxNext]_vars

(***************************************************************************)
(* The pipeline fed with the extremes of the 16-bit sample: each receiver  *)
(* is answered with samples at the ends of the accepted window and at the  *)
(* ends of the uint16_t range.                                             *)
(***************************************************************************)

RangeSetups ==
    { Setup({}, TRUE, DefaultMapString, 0),
      Setup({"RX_SERIAL", "FAILSAFE"}, TRUE, DefaultMapString, 0) }

\* rx.c:259: what the raw-read function answers.
RangeRawValues ==
    IF isRxDataDriven THEN {0, PULSE_MIN, PULSE_MAX, 65535}
    ELSE {PULSE_MAX, 65535}

RangeTick ==
    \E raw \in [ReadChannels -> RangeRawValues] : calculateRxChannelsAndUpdateFailsafe(raw)

RangeInit == TimerInitState /\ \E setup \in RangeSetups : Boot(setup)
RangeNext == UpdateRx \/ RangeTick \/ FrameArrives
SpecRange == RangeInit /\ [][RangeNext]_vars

(***************************************************************************)
(* The selection of the receiver: the boot starts from any combination of  *)
(* receiver features, with a serial driver that comes up or fails.         *)
(***************************************************************************)

SelectSetups ==
    {Setup(features, serialOk, DefaultMapString, 0) :
        features \in SUBSET RxFeatures, serialOk \in BOOLEAN}
    \cup {[Setup(features, FALSE, DefaultMapString, 0) EXCEPT !.leftCount = NumChannels] :
            features \in SUBSET RxFeatures}

SelectTick ==
    \E raw \in [ReadChannels -> {PULSE_MIN}] : calculateRxChannelsAndUpdateFailsafe(raw)

SelectInit == TimerInitState /\ \E setup \in SelectSetups : Boot(setup)
SelectNext == UpdateRx \/ SelectTick \/ FrameArrives \/ PpmPulse
SpecSelect == SelectInit /\ [][SelectNext]_vars

(***************************************************************************)
(* The scheduling gate: the clock advances, the main loop processes the    *)
(* receiver when shouldProcessRx says so, the RSSI is sampled by the ADC.  *)
(***************************************************************************)

GateSetup == Setup({"RX_MSP", "RSSI_ADC"}, TRUE, DefaultMapString, 0)
\* adcGetChannel(ADC_RSSI): a 12-bit sample.
GateAdcValues == {2048}

Clock == \E step \in ClockSpans : ClockAdvance(step)

\* The main loop's use of the gate.
ProcessRxWhenDue ==
    /\ shouldProcessRx(currentTime)
    /\ \E raw \in [ReadChannels -> {DefaultMidrc}] : calculateRxChannelsAndUpdateFailsafe(raw)

UpdateRssiAdc == \E adc \in GateAdcValues : updateRSSI(adc)

GateInit == TimerInitState /\ Boot(GateSetup)
GateNext == Clock \/ ProcessRxWhenDue \/ UpdateRssiAdc
SpecGate == GateInit /\ [][GateNext]_vars

(***************************************************************************)
(* RSSI from a channel: frames carry the signal strength in channel 2.     *)
(***************************************************************************)

RssiSetup == Setup({"RX_MSP"}, TRUE, DefaultMapString, 2)
\* What the receiver reports in the RSSI channel.
RssiRawValues == {PULSE_MIN - 1, PULSE_MIN, 999, 1000, 1001, 1002, 1250, 1499, 1500, 1501,
                  1750, 1998, 1999, 2000, 2001, PULSE_MAX, PULSE_MAX + 1}

RssiFrame ==
    \E v \in RssiRawValues :
        calculateRxChannelsAndUpdateFailsafe(
            [c \in ReadChannels |->
                IF c = calculateChannelRemapping(rxConfig.rcmap, REMAPPABLE_CHANNEL_COUNT,
                                                 rxConfig.rssi_channel - 1)
                THEN v ELSE DefaultMidrc])

UpdateRssiPwm == updateRSSI(0)

RssiInit == TimerInitState /\ Boot(RssiSetup)
RssiNext == FrameArrives \/ UpdateRx \/ RssiFrame \/ UpdateRssiPwm
SpecRssi == RssiInit /\ [][RssiNext]_vars

(***************************************************************************)
(* The RSSI strategies: the ADC is sampled at its 50 Hz cadence, or a      *)
(* channel carries the signal strength, or neither is configured.          *)
(***************************************************************************)

SignalSetups ==
    { Setup({"RX_MSP", "RSSI_ADC"}, TRUE, DefaultMapString, 0),
      Setup({"RX_MSP", "RSSI_ADC"}, TRUE, DefaultMapString, 2),
      Setup({"RX_MSP"}, TRUE, DefaultMapString, 0) }

\* adcGetChannel(ADC_RSSI): the steady half-scale sample, and the two ends
\* of the 12-bit range as disturbances.
NominalAdc == 2048
SignalAdcValues == {0, NominalAdc, 4095}
\* At most this many samples of the window are disturbed.
MaxOddSamples == 2
NominalPercentage == 50
OddSamples == Cardinality({i \in 1..Len(adcHistory) : adcHistory[i] # NominalPercentage})

\* The clock reaches the next deadline of the ADC sampling.
SampleClock ==
    /\ ~int32Elapsed(currentTime, rssiUpdateAt)
    /\ currentTime' = U32Add(currentTime, U32(0, DELAY_50_HZ))
    /\ sinceRxUpdate' = SpanAdd(sinceRxUpdate, <<0, DELAY_50_HZ>>)
    /\ sinceRssiUpdate' = SpanAdd(sinceRssiUpdate, <<0, DELAY_50_HZ>>)
    /\ UNCHANGED <<configVars, channelVars, frameVars, rxUpdateAt, rssi, adcRssiSamples,
                   adcRssiSampleIndex, rssiUpdateAt, rssiInput, adcGhost, clockSteps, remapQuery>>
    /\ UNCHANGED <<timerVars, mainVars>>

UpdateRssi ==
    \E adc \in SignalAdcValues :
        /\ adcTaken < MaxAdcSamples
        /\ adc = NominalAdc \/ OddSamples < MaxOddSamples
        /\ updateRSSI(adc)

SignalFrame == rxConfig.rssi_channel > 0 /\ RssiFrame

SignalInit == TimerInitState /\ \E setup \in SignalSetups : Boot(setup)
SignalNext == SampleClock \/ UpdateRssi \/ FrameArrives \/ UpdateRx \/ SignalFrame
SpecSignal == SignalInit /\ [][SignalNext]_vars

(***************************************************************************)
(* The cadence: the clock advances, frames and pulses arrive, and the main *)
(* loop calls updateRx, processes the receiver when shouldProcessRx says   *)
(* so, and calls updateRSSI.                                               *)
(***************************************************************************)

\* A PPM receiver, a serial receiver and an MSP receiver without failsafe,
\* none with an RSSI source.
CadenceSetups ==
    { Setup({"RX_PPM", "FAILSAFE"}, TRUE, DefaultMapString, 0),
      Setup({"RX_SERIAL", "FAILSAFE"}, TRUE, DefaultMapString, 0),
      Setup({"RX_MSP"}, TRUE, DefaultMapString, 0) }

\* What every channel reads during a tick: the frames of the serial
\* receiver carry the lowest valid value, the PPM input the mid-stick value.
CadenceRawValue == IF isRxDataDriven THEN PULSE_MIN ELSE DefaultMidrc

\* The main loop's use of the gate.
CadenceTick ==
    /\ shouldProcessRx(currentTime)
    /\ calculateRxChannelsAndUpdateFailsafe([c \in ReadChannels |-> CadenceRawValue])

CadenceRssi == \E adc \in {0, 4095} : updateRSSI(adc)

CadenceInit == TimerInitState /\ \E setup \in CadenceSetups : Boot(setup)
CadenceNext == Clock \/ UpdateRx \/ FrameArrives \/ PpmPulse \/ CadenceTick \/ CadenceRssi
SpecCadence == CadenceInit /\ [][CadenceNext]_vars

(***************************************************************************)
(*                    PART 4 - CONFIGURATION STORAGE                       *)
(*                                                                         *)
(* writeEEPROM (config.c:546-596) writes the configuration image to the    *)
(* last pages of the flash and reads it back.  The image is modelled word  *)
(* by word, one byte of content per word; offsets count words.             *)
(***************************************************************************)

\* sizeof(master_t), in words, and FLASH_PAGE_SIZE (config.c:75, 80), in
\* words: the image spans two pages, as an image of more than FLASH_PAGE_SIZE
\* and at most FLASH_TO_RESERVE_FOR_CONFIG bytes does on the F10X build.
ConfigWords == 6
PageWords == 4

\* config.c:89.
EEPROM_CONF_VERSION == 75

\* config.c:558-559.
MAGIC_BE == 190
MAGIC_EF == 239

\* A word of an erased page reads as all ones.
ErasedWord == 255

\* config.c:370: the exclusive or of two bytes.
RECURSIVE Xor(_, _)
Xor(a, b) ==
    IF a = 0 THEN b
    ELSE IF b = 0 THEN a
    ELSE ((a + b) % 2) + 2 * Xor(a \div 2, b \div 2)

\* config.c:364-372 over the words first..last of an image.
RECURSIVE checksumFrom(_, _, _)
checksumFrom(data, offset, checksum) ==
    IF offset >= ConfigWords THEN checksum
    ELSE checksumFrom(data, offset + 1, Xor(checksum, data[offset]))

calculateChecksum(data) == checksumFrom(data, 0, 0)

\* The layout of master_t: version, size and magic_be lead, magic_ef and chk
\* close, the settings lie between.
VersionAt == 0
SizeAt == 1
MagicBeAt == 2
MagicEfAt == ConfigWords - 2
ChkAt == ConfigWords - 1

\* config.c:556-561: the image writeEEPROM prepares from the settings in RAM.
preparedImage(settings) ==
    LET unsigned == [i \in 0..(ConfigWords - 1) |->
                        IF i = VersionAt THEN EEPROM_CONF_VERSION
                        ELSE IF i = SizeAt THEN ConfigWords
                        ELSE IF i = MagicBeAt THEN MAGIC_BE
                        ELSE IF i = MagicEfAt THEN MAGIC_EF
                        ELSE IF i = ChkAt THEN 0
                        ELSE settings]
    IN [unsigned EXCEPT ![ChkAt] = calculateChecksum(unsigned)]

\* config.c:374-394 on the image the flash holds.
isEEPROMContentValid(flash) ==
    IF EEPROM_CONF_VERSION # flash[VersionAt] THEN FALSE
    ELSE IF flash[SizeAt] # ConfigWords \/ flash[MagicBeAt] # MAGIC_BE
            \/ flash[MagicEfAt] # MAGIC_EF THEN FALSE
    ELSE IF calculateChecksum(flash) # 0 THEN FALSE
    ELSE TRUE

\* config.c:593 with only the status tested.
writeFailed_StatusOnly(status, flash) == status # "FLASH_COMPLETE"

\* config.c:593: the test that leads to failureMode(10).
writeFailed(status, flash) ==
    status # "FLASH_COMPLETE" \/ ~isEEPROMContentValid(flash)

\* What the flash holds when writeEEPROM is called: a blank device, or the
\* image of an earlier write, whose settings (1) differ from those in RAM at
\* the call (2).
StoredImages == { [i \in 0..(ConfigWords - 1) |-> ErasedWord], preparedImage(1) }

\* config.c:574: FLASH_ErasePage completes and leaves the page erased, or
\* does not complete and leaves it as it was.
ErasePage(flash, offset, outcome) ==
    IF outcome = "FLASH_COMPLETE"
    THEN [i \in 0..(ConfigWords - 1) |->
             IF i >= offset /\ i < offset + PageWords THEN ErasedWord ELSE flash[i]]
    ELSE flash
EraseOutcomes == {"FLASH_COMPLETE", "FLASH_TIMEOUT"}

\* config.c:580-581: FLASH_ProgramWord completes and the word holds the
\* value, completes on a worn cell that holds one bit wrongly, or does not
\* complete and leaves the word as it was.
ProgramOutcomes == {"FLASH_COMPLETE", "worn", "FLASH_ERROR_PG"}
ProgramStatus(outcome) == IF outcome = "worn" THEN "FLASH_COMPLETE" ELSE outcome
ProgramWord(flash, offset, word, outcome) ==
    IF outcome = "FLASH_COMPLETE" THEN [flash EXCEPT ![offset] = word]
    ELSE IF outcome = "worn" THEN [flash EXCEPT ![offset] = Xor(word, 1)]
    ELSE flash

\* What writeEEPROM leaves alone.
otherVarsOfEeprom == <<timerVars, rxVars, capturePc, loopPc, latched, consumed, completeRcData>>

\* config.c:551-564: the locals, the prepared image, FLASH_Unlock.  History
\* is kept beside them: the attempts begun, the words programmed in the
\* attempt, whether a flash operation of the attempt did not complete, and
\* the flash operations made in the attempt after one that did not.
WriteBegin ==
    /\ eeprom = Idle
    /\ \E stored \in StoredImages :
           eeprom' = [step |-> "while", attemptsRemaining |-> 3, wordOffset |-> 0,
                      status |-> "none", locked |-> FALSE, flash |-> stored,
                      masterConfig |-> preparedImage(2),
                      attempts |-> 0, programmed |-> 0, failed |-> FALSE,
                      afterFailure |-> 0, failureMode |-> 0]
    /\ UNCHANGED otherVarsOfEeprom

\* config.c:565-572: the test of the while loop with its decrement, and the
\* start of the for loop.
WhileTest ==
    /\ eeprom.step = "while"
    /\ eeprom' = IF eeprom.attemptsRemaining # 0
                 THEN [eeprom EXCEPT !.attemptsRemaining = @ - 1, !.step = "for",
                                     !.wordOffset = 0, !.attempts = @ + 1,
                                     !.programmed = 0, !.failed = FALSE]
                 ELSE [eeprom EXCEPT !.attemptsRemaining = @ - 1, !.step = "lock"]
    /\ UNCHANGED otherVarsOfEeprom

\* config.c:572-585: one pass of the for loop.
ForPass ==
    /\ eeprom.step = "for"
    /\ IF eeprom.wordOffset >= ConfigWords
       THEN eeprom' = [eeprom EXCEPT !.step = "endfor"]
       ELSE \E erased \in EraseOutcomes, programmed \in ProgramOutcomes :
               LET offset == eeprom.wordOffset
                   atPage == offset % PageWords = 0
                   afterErase == IF atPage THEN ErasePage(eeprom.flash, offset, erased)
                                 ELSE eeprom.flash
                   eraseFailed == atPage /\ erased # "FLASH_COMPLETE"
                   afterProgram == ProgramWord(afterErase, offset, eeprom.masterConfig[offset],
                                               programmed)
                   operations == IF atPage /\ ~eraseFailed THEN 2 ELSE 1
               IN /\ atPage \/ erased = "FLASH_COMPLETE"
                  /\ ~eraseFailed \/ programmed = "FLASH_COMPLETE"
                  /\ eeprom' =
                       IF eraseFailed
                       THEN [eeprom EXCEPT !.status = erased, !.flash = afterErase,
                                           !.afterFailure = IF eeprom.failed THEN @ + 1 ELSE @,
                                           !.failed = TRUE, !.step = "endfor"]
                       ELSE IF ProgramStatus(programmed) # "FLASH_COMPLETE"
                       THEN [eeprom EXCEPT !.status = ProgramStatus(programmed),
                                           !.flash = afterProgram,
                                           !.afterFailure = IF eeprom.failed THEN @ + operations ELSE @,
                                           !.failed = TRUE, !.step = "endfor"]
                       ELSE [eeprom EXCEPT !.status = ProgramStatus(programmed),
                                           !.flash = afterProgram,
                                           !.afterFailure = IF eeprom.failed THEN @ + operations ELSE @,
                                           !.programmed = @ + 1,
                                           !.wordOffset = @ + 1]
    /\ UNCHANGED otherVarsOfEeprom

\* config.c:586-589: the end of an attempt.
EndOfAttempt ==
    /\ eeprom.step = "endfor"
    /\ eeprom' = [eeprom EXCEPT !.step = IF eeprom.status = "FLASH_COMPLETE" THEN "lock"
                                         ELSE "while"]
    /\ UNCHANGED otherVarsOfEeprom

\* config.c:590-595: FLASH_Lock and the test of the outcome; failureMode does
\* not return.
LockAndVerify ==
    /\ eeprom.step = "lock"
    /\ eeprom' = [eeprom EXCEPT !.locked = TRUE, !.step = "done",
                                !.failureMode = IF writeFailed(eeprom.status, eeprom.flash)
                                                THEN 10 ELSE 0]
    /\ UNCHANGED otherVarsOfEeprom

EepromInit == TimerInitState /\ Boot(Setup({}, TRUE, DefaultMapString, 0))
EepromNext == WriteBegin \/ WhileTest \/ ForPass \/ EndOfAttempt \/ LockAndVerify
SpecEeprom == EepromInit /\ [][EepromNext]_vars

(***************************************************************************)
(*                     Properties of the dispatcher                        *)
(***************************************************************************)

ChannelIndices == 0..(CC_CHANNELS_PER_TIMER - 1)

\* The latest registration of channel index ci of the peripheral of the entry.
RegistrationOf(ci) == lastRegistration[<<irqTim, channels[ci]>>]

HasEdgeCallback(ci) ==
    /\ RegistrationOf(ci).registered
    /\ RegistrationOf(ci).edgeCallback # NULL

\* The positions in calls of the edge invocations that carry the capture
\* register of channel index ci.
EdgeCallsOf(ci) ==
    {i \in 1..Len(calls) : /\ calls[i].kind = "edge"
                           /\ calls[i].capture = TIM_GetCapture(irqTim, ci + 1)}

\* C1: at an interrupt entry of a peripheral, every channel of it that is
\* registered and has its capture-compare flag pending gets exactly one edge
\* invocation, carrying the edge callback and the reference tag of the latest
\* registration of that very (timer, channel) pair and the capture register of
\* that channel (none when that registration supplied no edge callback); and
\* every edge invocation of the entry is one of these, so no callback or
\* reference of a sibling channel or of another timer is ever used.
C1_EdgeInvokesLatestRegistration ==
    irqTim # NULL =>
        /\ \A ci \in ChannelIndices :
             (RegistrationOf(ci).registered /\ TIM_IT_CC(ci) \in irqStatus) =>
                 /\ Cardinality(EdgeCallsOf(ci)) = (IF HasEdgeCallback(ci) THEN 1 ELSE 0)
                 /\ \A i \in EdgeCallsOf(ci) :
                      /\ calls[i].callback = RegistrationOf(ci).edgeCallback
                      /\ calls[i].reference = RegistrationOf(ci).reference
        /\ \A i \in 1..Len(calls) :
             calls[i].kind = "edge" =>
                 \E ci \in ChannelIndices :
                     /\ i \in EdgeCallsOf(ci)
                     /\ TIM_IT_CC(ci) \in irqStatus
                     /\ HasEdgeCallback(ci)
                     /\ calls[i].callback = RegistrationOf(ci).edgeCallback
                     /\ calls[i].reference = RegistrationOf(ci).reference

\* C1 witness: channel 2 of TIM2 was registered twice with different reference
\* tags, its flag is pending together with another one, and the entry invoked
\* its edge callback.
C1_Witness ==
    /\ irqTim = "TIM2"
    /\ regCount = 2
    /\ Cardinality({p \in DOMAIN lastRegistration : lastRegistration[p].registered}) = 1
    /\ HasEdgeCallback(1)
    /\ RegistrationOf(1).reference = 1
    /\ {TIM_IT_CC(0), TIM_IT_CC(1)} \subseteq irqStatus
    /\ Cardinality(EdgeCallsOf(1)) = 1

\* C2 as stated: an edge event for a never-registered pair invokes nothing
\* and changes no state at all, the pending flag included.
C2_Original_NoMutationAtAll ==
    (irqTim # NULL /\ \E ci \in ChannelIndices :
                          /\ irqStatus = {TIM_IT_CC(ci)}
                          /\ ~RegistrationOf(ci).registered)
        => (calls = << >> /\ irqCleared = {})

\* C2 as amended: an edge event for a never-registered pair invokes no callback
\* and leaves the registration table unchanged; the one thing the entry changes
\* is that the pending capture-compare flag of that channel is cleared.
C2_UnregisteredEdgeOnlyClearsFlag ==
    [][(irqTim = NULL /\ irqTim' # NULL) =>
          /\ timerConfig' = timerConfig
          /\ lastRegistration' = lastRegistration
          /\ \A ci \in ChannelIndices :
               (TIM_IT_CC(ci) \in irqStatus'
                    /\ ~lastRegistration[<<irqTim', channels[ci]>>].registered) =>
                   /\ ~\E i \in 1..Len(calls') :
                         calls'[i].capture = TIM_GetCapture(irqTim', ci + 1)
                   /\ TIM_IT_CC(ci) \in irqCleared'
                   /\ (irqStatus' = {TIM_IT_CC(ci)} =>
                           (calls' = << >> /\ irqCleared' = {TIM_IT_CC(ci)}))]_vars

\* C2 witness: an entry with the flag of a never-registered channel pending,
\* while a sibling channel and a channel of another timer are registered.
C2_Witness ==
    /\ irqTim = "TIM3"
    /\ irqStatus = {TIM_IT_CC(2)}
    /\ ~RegistrationOf(2).registered
    /\ RegistrationOf(1).registered /\ HasEdgeCallback(1)
    /\ lastRegistration[<<"TIM2", channels[2]>>].registered
    /\ calls = << >>
    /\ irqCleared = {TIM_IT_CC(2)}

\* C3: within one interrupt entry no edge invocation comes before an overflow
\* invocation.
C3_OverflowBeforeEdge ==
    \A i \in 1..Len(calls) : \A j \in 1..Len(calls) :
        (calls[i].kind = "edge" /\ calls[j].kind = "overflow") => j < i

\* C3 witness: an entry with the update flag and two capture-compare flags
\* pending that made overflow and edge invocations.
C3_Witness ==
    /\ irqTim # NULL
    /\ TIM_IT_Update \in irqStatus
    /\ Cardinality(irqStatus) >= 3
    /\ Len(calls) >= 3
    /\ calls[1].kind = "overflow"
    /\ calls[Len(calls)].kind = "edge"

\* The channel indices, in ascending order, that an entry with pending set
\* irqStatus has to serve with an edge invocation.
RECURSIVE ExpectedEdgeOrder(_)
ExpectedEdgeOrder(ci) ==
    IF ci >= CC_CHANNELS_PER_TIMER THEN << >>
    ELSE (IF TIM_IT_CC(ci) \in irqStatus /\ HasEdgeCallback(ci) THEN <<ci>> ELSE << >>)
            \o ExpectedEdgeOrder(ci + 1)

IsEdgeCall(c) == c.kind = "edge"

\* C4: for every set P of pending capture-compare flags the edge invocations
\* of the entry are, in this order, one per channel of P that has an edge
\* callback, by ascending channel number; every flag of P is cleared and no
\* other capture-compare flag is touched, whatever lower channels are idle
\* or unregistered.
C4_ServesExactlyPendingChannelsInOrder ==
    irqTim # NULL =>
        LET edges == SelectSeq(calls, IsEdgeCall)
            expected == ExpectedEdgeOrder(0)
        IN /\ Len(edges) = Len(expected)
           /\ \A k \in 1..Len(expected) :
                edges[k].capture = TIM_GetCapture(irqTim, expected[k] + 1)
           /\ \A ci \in ChannelIndices :
                (TIM_IT_CC(ci) \in irqCleared) <=> (TIM_IT_CC(ci) \in irqStatus)

\* C4 witness: channel 1 idle, channel 2 pending but unregistered, channel 3
\* idle, channel 4 pending and registered: channel 4 is served.
C4_Witness ==
    /\ irqTim # NULL
    /\ irqStatus = {TIM_IT_CC(1), TIM_IT_CC(3)}
    /\ ~RegistrationOf(1).registered
    /\ HasEdgeCallback(3)
    /\ HasEdgeCallback(0)
    /\ Len(calls) = 1
    /\ calls[1].capture = TIM_GetCapture(irqTim, 4)

\* A registration call for a pair the dispatcher has no slot for.
StrayRegistration ==
    \E tim \in ModelTimers \cup {UnknownTimer}, channel \in ModelChannels \cup {UnknownChannel},
       cb \in CallbackPairs :
        /\ tim = UnknownTimer \/ channel = UnknownChannel
        /\ configureTimerChannelCallbacks(tim, channel, 1, cb[1], cb[2])

\* C12: a registration for a (timer, channel) pair that corresponds to no
\* dispatcher slot is a silent no-op: the call returns and every slot of the
\* registration table is as it was.
C12_StrayRegistrationIsNoOp ==
    [][StrayRegistration => (~spinning' /\ timerConfig' = timerConfig)]_vars

\* The capture-compare interrupt source of each channel constant.
CaptureSourceOf ==
    (TIM_Channel_1 :> "TIM_IT_CC1") @@ (TIM_Channel_2 :> "TIM_IT_CC2") @@
    (TIM_Channel_3 :> "TIM_IT_CC3") @@ (TIM_Channel_4 :> "TIM_IT_CC4")

\* C13: configureTimerCaptureCompareInterrupt for channel c of a timer leaves
\* the capture-compare source of c on that timer enabled; it leaves the
\* timer's update source enabled when an overflow callback is supplied and
\* as it was when none is; nothing but these two sources changes, and no
\* source that was enabled is disabled.
C13_CaptureEnablesExactlyItsSources ==
    [][\A tim \in ModelTimers, channel \in ModelChannels, reference \in References,
          cb \in CallbackPairs :
          configureTimerCaptureCompareInterrupt(tim, channel, reference, cb[1], cb[2])
          => /\ <<tim, CaptureSourceOf[channel]>> \in itEnabled'
             /\ cb[2] # NULL => <<tim, TIM_IT_Update>> \in itEnabled'
             /\ cb[2] = NULL =>
                    (<<tim, TIM_IT_Update>> \in itEnabled' <=> <<tim, TIM_IT_Update>> \in itEnabled)
             /\ itEnabled \subseteq itEnabled'
             /\ itEnabled' \ itEnabled
                    \subseteq {<<tim, CaptureSourceOf[channel]>>, <<tim, TIM_IT_Update>>}]_vars

\* Channel 3 of TIM2 was set up with an overflow callback, then channel 1 of
\* TIM3 without one.
C13_Witness ==
    /\ itEnabled = {<<"TIM2", "TIM_IT_CC3">>, <<"TIM2", TIM_IT_Update>>, <<"TIM3", "TIM_IT_CC1">>}
    /\ findTimerConfig("TIM3", TIM_Channel_1).edgeCallback = "edgeCallback"
    /\ findTimerConfig("TIM3", TIM_Channel_1).overflowCallback = NULL
    /\ findTimerConfig("TIM2", TIM_Channel_3).overflowCallback = "overflowCallback"

\* The channel indices, in ascending order, whose slots an entry with the
\* update flag pending has to serve with an overflow invocation.
RECURSIVE ExpectedOverflowOrder(_)
ExpectedOverflowOrder(ci) ==
    IF ci >= CC_CHANNELS_PER_TIMER THEN << >>
    ELSE (IF RegistrationOf(ci).registered /\ RegistrationOf(ci).overflowCallback # NULL
          THEN <<ci>> ELSE << >>)
            \o ExpectedOverflowOrder(ci + 1)

IsOverflowCall(c) == c.kind = "overflow"

\* C23: at an interrupt entry with the update flag pending the flag is
\* cleared and the overflow invocations of the entry are, in this order, one
\* per channel 1..4 of that peripheral whose slot has an overflow callback,
\* each with the callback and the reference of that slot and the peripheral's
\* auto-reload register; slots without an overflow callback and slots of
\* other peripherals are not invoked; with the flag not pending there is no
\* overflow invocation.
C23_OverflowFanOut ==
    irqTim # NULL =>
        LET overflows == SelectSeq(calls, IsOverflowCall)
            expected == IF TIM_IT_Update \in irqStatus THEN ExpectedOverflowOrder(0) ELSE << >>
        IN /\ Len(overflows) = Len(expected)
           /\ \A k \in 1..Len(expected) :
                /\ overflows[k].callback = RegistrationOf(expected[k]).overflowCallback
                /\ overflows[k].reference = RegistrationOf(expected[k]).reference
                /\ overflows[k].capture = ARR(irqTim)
           /\ (TIM_IT_Update \in irqCleared) <=> (TIM_IT_Update \in irqStatus)

\* Channel 4 of TIM3 was registered with reference 1 before channel 2 with
\* reference 0, both with an overflow callback: the entry with only the
\* update flag pending invoked channel 2's slot, then channel 4's.
C23_Witness ==
    /\ irqTim = "TIM3"
    /\ irqStatus = {TIM_IT_Update}
    /\ ~RegistrationOf(0).registered
    /\ RegistrationOf(1).registered /\ RegistrationOf(1).reference = 0
    /\ RegistrationOf(3).registered /\ RegistrationOf(3).reference = 1
    /\ Len(calls) = 2
    /\ calls[1] = [kind |-> "overflow", callback |-> "overflowCallback",
                   reference |-> 0, capture |-> ARR("TIM3")]
    /\ calls[2] = [kind |-> "overflow", callback |-> "overflowCallback",
                   reference |-> 1, capture |-> ARR("TIM3")]

\* An entry of TIM2 with the update flag pending while only a slot of TIM3
\* has an overflow callback: nothing is invoked.
C23_OtherPeripheralWitness ==
    /\ irqTim = "TIM2"
    /\ TIM_IT_Update \in irqStatus
    /\ lastRegistration[<<"TIM3", channels[0]>>].registered
    /\ lastRegistration[<<"TIM3", channels[0]>>].overflowCallback # NULL
    /\ calls = << >>

\* A step that enters an interrupt.
InterruptEntry == irqTim = NULL /\ irqTim' # NULL

\* Every field of every slot is kept.
TableKept ==
    \A i \in DOMAIN timerConfig :
        /\ timerConfig'[i].edgeCallback = timerConfig[i].edgeCallback
        /\ timerConfig'[i].overflowCallback = timerConfig[i].overflowCallback
        /\ timerConfig'[i].channel = timerConfig[i].channel
        /\ timerConfig'[i].reference = timerConfig[i].reference

EntryKeepsTable == InterruptEntry => TableKept
TableChangesByRegistration == ~TableKept => (regCount' = regCount + 1 \/ timerInit)

\* C31: an interrupt entry, whatever flags are pending and whatever is
\* registered, leaves the edge callback, the overflow callback, the channel
\* and the reference of every slot as they were; a slot changes in a
\* registration call or in timerInit only.
C31_EntryNeverWritesTable ==
    [][EntryKeepsTable]_vars /\ [][TableChangesByRegistration]_vars

\* An entry with every flag pending has invoked an overflow and an edge
\* callback of two registered slots.
C31_Witness ==
    /\ irqTim # NULL
    /\ irqStatus = ITSources
    /\ Len(calls) >= 2
    /\ \E i, j \in 1..Len(calls) : calls[i].kind = "overflow" /\ calls[j].kind = "edge"
    /\ \E i \in DOMAIN timerConfig : timerConfig[i].reference = 1

IsEdgeKind(c) == c.kind = "edge"

\* C36: the interrupt entry of a peripheral of the timers table comes to
\* its end (every table walk of the entry ends), having invoked at most 4
\* overflow and at most 4 edge callbacks, and on return the update flag and
\* every capture-compare flag that was pending at the entry are cleared,
\* those of channels without a callback included.
C36_EntryEndsWithFlagsCleared ==
    irqTim # NULL =>
        /\ ~spinning
        /\ \A channel \in ModelChannels : lookupReturns(irqTim, channel)
        /\ Len(SelectSeq(calls, IsOverflowCall)) <= CC_CHANNELS_PER_TIMER
        /\ Len(SelectSeq(calls, IsEdgeKind)) <= CC_CHANNELS_PER_TIMER
        /\ irqCleared = irqStatus

\* All four channels carry an overflow callback and no edge callback: the
\* entry with every flag pending made the four overflow invocations, no
\* edge invocation, and cleared the four capture-compare flags as well.
C36_Witness ==
    /\ irqTim # NULL
    /\ irqStatus = ITSources
    /\ Len(calls) = CC_CHANNELS_PER_TIMER
    /\ \A i \in 1..Len(calls) : calls[i].kind = "overflow"
    /\ irqCleared = ITSources

\* All four channels carry both callbacks: four overflow invocations, then
\* four edge invocations.
C36_EightCallsWitness ==
    /\ irqTim # NULL
    /\ Len(SelectSeq(calls, IsOverflowCall)) = CC_CHANNELS_PER_TIMER
    /\ Len(SelectSeq(calls, IsEdgeKind)) = CC_CHANNELS_PER_TIMER

\* The slots the entry of irqTim looks up: all four with the update flag
\* pending, and that of every channel whose flag is pending.
LookedUp ==
    {lookupTimerConfigIndex(irqTim, channels[ci]) :
        ci \in {cj \in 0..(CC_CHANNELS_PER_TIMER - 1) :
                    TIM_IT_Update \in irqStatus \/ TIM_IT_CC(cj) \in irqStatus}}

\* C32: the interrupt entry of a peripheral that is not in the timers
\* table, run with a flag pending, drops the event silently: it returns,
\* having invoked no callback and having looked at no slot outside the
\* registration table.
C32_StrayEntryDropsEvent ==
    irqTim = UnknownTimer =>
        /\ ~spinning
        /\ calls = << >>
        /\ \A timerConfigIndex \in LookedUp :
                timerConfigIndex < MAX_TIMERS * CC_CHANNELS_PER_TIMER

\* The parts of the claim, one by one.
StrayEntryReturns == irqTim = UnknownTimer => ~spinning
StrayEntryInvokesNothing == irqTim = UnknownTimer => calls = << >>

\* While a slot is being written, no source of its peripheral that makes
\* the handler read that slot is enabled: the update source, whose fan-out
\* reads all four slots, and the capture-compare source of the channel.
SlotWrittenBeforeEnabled ==
    (capturePc.step = "store" /\ capturePc.pending # {}) =>
        /\ <<capturePc.tim, TIM_IT_Update>> \notin itEnabled
        /\ <<capturePc.tim, CaptureSourceOf[capturePc.channel]>> \notin itEnabled

\* Every invocation of an interrupt entry carries the callback and the
\* reference of one registration of that peripheral.
NoStaleReferenceInvoked ==
    irqTim # NULL =>
        \A i \in 1..Len(calls) :
            \E channel \in ModelChannels :
                LET r == lastRegistration[<<irqTim, channel>>]
                IN /\ r.registered
                   /\ calls[i].reference = r.reference
                   /\ calls[i].callback = (IF calls[i].kind = "overflow"
                                           THEN r.overflowCallback ELSE r.edgeCallback)

\* C22: when the channels of a peripheral are registered one after another
\* with configureTimerCaptureCompareInterrupt, every slot is completely
\* written before any interrupt of the peripheral that reads the slot is
\* enabled, so that no interrupt entry between the steps of a registration
\* invokes a newly registered callback with a stale reference.
C22_SlotCompleteBeforeInterrupt ==
    SlotWrittenBeforeEnabled /\ NoStaleReferenceInvoked

(***************************************************************************)
(*                      Properties of the pipeline                         *)
(***************************************************************************)

\* The mean of four samples, truncated toward zero.
TruncatedMean(s) ==
    LET sum == s[1] + s[2] + s[3] + s[4]
    IN IF sum >= 0 THEN sum \div 4 ELSE -((-sum) \div 4)

\* C5: POLL-mode smoothing.  From the 4th POLL tick after startup on, the
\* value published for a channel is the mean, truncated toward zero, of the
\* last 4 validated samples of that channel: (s0+s1+s2+s3)/4 after the 4th
\* tick, (s4+s1+s2+s3)/4 after the 5th.
C5_PollPublishesTruncatedMeanOfLastFour ==
    ~isRxDataDriven =>
        \A chan \in Channels :
            (chan < rxRuntimeConfig.channelCount /\ pollTicks >= 4) =>
                /\ Len(history[chan]) = 4
                /\ rcData[chan] = TruncatedMean(history[chan])

\* The 5th tick has replaced the oldest of five samples: the mean of
\* 1500, 1500, 1500, 750 is 1312.5 and 1312 is published.
C5_Witness ==
    /\ ~isRxDataDriven
    /\ pollTicks = 5
    /\ history[0] = <<1500, 1500, 1500, 750>>
    /\ rcData[0] = 1312
    /\ rcSamples[0][1] = 750

\* The value the window of C6 lets through for a raw sample.
Kept(read) == IF read < 750 \/ read > 2250 THEN rxConfig.midrc ELSE read

\* C6: a raw sample strictly below 750 or strictly above 2250 is replaced by
\* the mid-stick value before it is published (PUSH) or written into the
\* smoothing window (POLL); 750, 2250 and everything between is kept.
C6_OutOfWindowSampleReplacedByMidrc ==
    \A i \in 1..Len(rawRead) :
        LET chan == i - 1
            kept == Kept(rawRead[i][2])
        IN IF isRxDataDriven
           THEN rcData[chan] = kept
           ELSE /\ rcSamples[chan][rcSampleIndex % 4] = kept
                /\ pollTicks < 4 => rcData[chan] = kept

\* A frame with 2251 in its first and 2250 in its second channel.
C6_Witness ==
    /\ isRxDataDriven
    /\ Len(rawRead) = 2
    /\ rawRead[1][2] = 2251 /\ rcData[0] = rxConfig.midrc
    /\ rawRead[2][2] = 2250 /\ rcData[1] = 2250

\* The step is a processing tick that finds a frame received.
FrameProcessed == isRxDataDriven /\ rcDataReceived /\ RxTick

\* C7 as stated: after the processing tick that follows a complete frame,
\* every published channel equals the raw frame value of its physical
\* channel, and the frame-received indication is false.
C7_Original_RawFramePublished ==
    [][FrameProcessed =>
        /\ ~rcDataReceived'
        /\ \A chan \in 0..(rxRuntimeConfig.channelCount - 1) :
              rcData'[chan] = rawRead'[chan + 1][2]]_vars

\* C7, amended: after the processing tick that follows a complete frame,
\* every published channel below the channel count equals the raw frame
\* value read at its remapped physical index if that value is within
\* [750, 2250] and the mid-stick value otherwise, with no smoothing, and the
\* frame-received indication is false until updateRx sees the next frame.
C7_PushPublishesValidatedFrame ==
    [][/\ FrameProcessed =>
            /\ ~rcDataReceived'
            /\ Len(rawRead') = rxRuntimeConfig.channelCount
            /\ \A chan \in 0..(rxRuntimeConfig.channelCount - 1) :
                  /\ rawRead'[chan + 1][1] = rxConfig.rcmap[chan]
                  /\ rcData'[chan] = Kept(rawRead'[chan + 1][2])
            /\ UNCHANGED <<rcSamples, rcDataMean, rcSampleIndex>>
       /\ (~rcDataReceived /\ rcDataReceived') => (frameComplete /\ ~frameComplete')]_vars

\* A frame has been processed: 749 was published as the mid-stick value,
\* 750 as it is.
C7_Witness ==
    /\ isRxDataDriven
    /\ ~rcDataReceived
    /\ Len(rawRead) = 2
    /\ rawRead[1] = <<rxConfig.rcmap[0], 749>> /\ rcData[0] = rxConfig.midrc
    /\ rawRead[2] = <<rxConfig.rcmap[1], 750>> /\ rcData[1] = 750
    /\ rxConfig.rcmap[0] = 2

\* C8: with the map filled by parseRcChannels("AETR1234"), the lookup of
\* logical channel k answers the table entry of k (0, 1, 3, 2, 4, 5, 6, 7)
\* for k below the entry count 8, and k itself for every k from 8 on.
C8_RemapIsTableLookupOrIdentity ==
    (mapString = <<"A", "E", "T", "R", "1", "2", "3", "4">> /\ remapQuery # << >>) =>
        LET k == remapQuery[1].chan
            answer == remapQuery[1].rawChannel
        IN /\ rxConfig.rcmap = [i \in 0..7 |-> IF i = 2 THEN 3 ELSE IF i = 3 THEN 2 ELSE i]
           /\ k < 8 => answer = rxConfig.rcmap[k]
           /\ k >= 8 => answer = k

\* Under the default map, channel 2 is looked up and channel 3 is answered.
C8_Witness ==
    /\ mapString = <<"A", "E", "T", "R", "1", "2", "3", "4">>
    /\ remapQuery = <<[chan |-> 2, rawChannel |-> 3]>>

\* Whether a deadline is due by the claim's reading: with span the time
\* since the deadline was set, now - deadline is span - 20000, and it is due
\* when that, modulo 2^32, is below 2^31.  Spans are <<n, r>> for n * 2^30 + r.
DueByModulus(span) ==
    LET quarters == IF span[2] >= 20000 THEN span[1] ELSE span[1] - 1
    IN (quarters % 4) < 2

\* C9: the due test of shouldProcessRx and of updateRSSIADC is true
\* exactly when (now - deadline) mod 2^32 is below 2^31, also across the
\* wrap of the 32-bit counter.
C9_DueTestIsModularSignedDifference ==
    /\ ~rcDataReceived => (shouldProcessRx(currentTime) <=> DueByModulus(sinceRxUpdate))
    /\ int32Elapsed(currentTime, rssiUpdateAt) <=> DueByModulus(sinceRssiUpdate)

\* The deadline lies in the last 65536 counts before the wrap, the counter
\* has wrapped, and 40000 have passed since the deadline was set.
C9_Witness ==
    /\ rxUpdateAt[1] = 65535
    /\ currentTime[1] = 0
    /\ sinceRxUpdate = <<0, 40000>>
    /\ shouldProcessRx(currentTime)

\* The RSSI of C10 for the channel value v.
RssiOfChannel(v) ==
    LET d == v - 1000
        clamped == IF d < 0 THEN 0 ELSE IF d > 1000 THEN 1000 ELSE d
    IN (clamped * 1023) \div 1000

\* C10: with rssi_channel = c > 0, updateRSSI sets rssi to
\* clamp(v - 1000, 0, 1000) * 1023 / 1000, truncated, for the published value
\* v of channel c - 1: 511 for 1500, 0 up to 1000, 1023 from 2000 on, and
\* never less for a greater v.
C10_RssiFromChannelIsClampedScale ==
    [][UpdateRssiPwm =>
        LET v == rcData[rxConfig.rssi_channel - 1]
        IN /\ rssi' = RssiOfChannel(v)
           /\ v = 1500 => rssi' = 511
           /\ v <= 1000 => rssi' = 0
           /\ v >= 2000 => rssi' = 1023
           /\ (rssiInput # << >> /\ rssiInput[1] <= v) => rssi <= rssi'
           /\ (rssiInput # << >> /\ rssiInput[1] >= v) => rssi >= rssi']_vars

\* 1999 was converted: 999 * 1023 / 1000 is 1021.977.
C10_Witness ==
    /\ rxConfig.rssi_channel = 2
    /\ rssiInput = <<1999>>
    /\ rcData[1] = 1999
    /\ rssi = 1021

\* The receiver feature that wins among those of a feature mask.
ChosenSource(features) ==
    IF "RX_MSP" \in features THEN "RX_MSP"
    ELSE IF "RX_SERIAL" \in features THEN "RX_SERIAL"
    ELSE IF "RX_PPM" \in features THEN "RX_PPM"
    ELSE "RX_PARALLEL_PWM"

\* The raw-read function of each receiver source.
ReadFuncOf ==
    [source \in RxFeatures |->
        IF source = "RX_MSP" THEN "rxMspReadRawRC"
        ELSE IF source = "RX_SERIAL" THEN "serialReadRawRC"
        ELSE "pwmReadRawRC"]

SerialFailed ==
    ChosenSource(bootSetup.features) = "RX_SERIAL" /\ ~bootSetup.serialOk

\* C14 as stated: for every initial feature mask exactly one receiver
\* feature is enabled after validateAndFixConfig, chosen by precedence, and
\* in every state after rxInit that feature is the one enabled and the
\* raw-read function is that source's.
C14_Original_AlwaysOneSource ==
    /\ validateAndFixConfig(bootSetup.features) \cap RxFeatures
            = {ChosenSource(bootSetup.features)}
    /\ enabledFeatures \cap RxFeatures = {ChosenSource(bootSetup.features)}
    /\ rcReadRawFunc = ReadFuncOf[ChosenSource(bootSetup.features)]

\* C14: for every initial feature mask exactly one receiver feature is
\* enabled after validateAndFixConfig, chosen by precedence (MSP, SERIAL, PPM,
\* PARALLEL_PWM, the last also when none was set); in every state after
\* rxInit that feature is the only receiver feature enabled and the raw-read
\* function is that source's, unless the source is the serial receiver and
\* its driver failed to come up: then no receiver feature is enabled and
\* there is no raw-read function.
C14_OneSourceUnlessSerialFails ==
    /\ validateAndFixConfig(bootSetup.features) \cap RxFeatures
            = {ChosenSource(bootSetup.features)}
    /\ IF SerialFailed
       THEN enabledFeatures \cap RxFeatures = {} /\ rcReadRawFunc = NULL
       ELSE /\ enabledFeatures \cap RxFeatures = {ChosenSource(bootSetup.features)}
            /\ rcReadRawFunc = ReadFuncOf[ChosenSource(bootSetup.features)]

\* Booted with PPM, SERIAL and PARALLEL_PWM all set, the serial receiver is
\* the source and a frame of it has been published.
C14_Witness ==
    /\ bootSetup.features = {"RX_PPM", "RX_SERIAL", "RX_PARALLEL_PWM"}
    /\ enabledFeatures \cap RxFeatures = {"RX_SERIAL"}
    /\ rcReadRawFunc = "serialReadRawRC"
    /\ rcData[0] = PULSE_MIN

\* C20: when the serial receiver is the source and its driver fails to come
\* up, RX_SERIAL is cleared, there is no raw-read function, and every
\* published channel is at the mid-stick value in every state reached by
\* updateRx and calculateRxChannelsAndUpdateFailsafe calls.
C20_FailedSerialFreezesAtMidrc ==
    SerialFailed =>
        /\ "RX_SERIAL" \notin enabledFeatures
        /\ rcReadRawFunc = NULL
        /\ \A i \in DOMAIN rcData : rcData[i] = rxConfig.midrc

\* The serial driver failed after announcing its channels, and a processing
\* tick has run since.
C20_Witness ==
    /\ SerialFailed
    /\ rxRuntimeConfig.channelCount = NumChannels
    /\ rxUpdateAt = U32(0, DELAY_50_HZ)
    /\ rcData[0] = DefaultMidrc

\* The number of times p occurs in the window's history.
Occurrences(p) == Cardinality({i \in 1..Len(adcHistory) : adcHistory[i] = p})

\* The sum of the percentages in a set, each taken as often as it occurs.
RECURSIVE MultisetSum(_)
MultisetSum(ps) ==
    IF ps = {} THEN 0
    ELSE LET p == CHOOSE q \in ps : TRUE
         IN p * Occurrences(p) + MultisetSum(ps \ {p})

\* The RSSI of a mean percentage.
RssiOfPercentage(mean) == (constrain(mean, 0, 100) * 1023) \div 100

\* C11: after exactly 16 due ADC samples of percentage 50 from the zeroed
\* window, rssi is 511; and once 16 samples have been taken, rssi is the
\* rescaled mean of the multiset of the last 16 percentages, whatever the
\* order they came in.
C11_AdcRssiIsMeanOfLastSixteen ==
    /\ (adcTaken = RSSI_ADC_SAMPLE_COUNT /\ OddSamples = 0) => rssi = 511
    /\ Len(adcHistory) = RSSI_ADC_SAMPLE_COUNT =>
            rssi = RssiOfPercentage(
                        MultisetSum({adcHistory[i] : i \in 1..Len(adcHistory)})
                            \div RSSI_ADC_SAMPLE_COUNT)

\* Exactly 16 samples of percentage 50 have been taken: the window index is
\* back at slot 0 and every slot holds 50.
C11_Witness ==
    /\ adcTaken = RSSI_ADC_SAMPLE_COUNT
    /\ OddSamples = 0
    /\ adcRssiSampleIndex = 0
    /\ \A slot \in DOMAIN adcRssiSamples : adcRssiSamples[slot] = NominalPercentage
    /\ rssi = 511

\* The window the ADC strategy leaves behind, summed.
WindowSum(window) == sumAdcSamples(window, 0, 0)

\* C16: rssi is within [0, 1023] in every state, and a call of updateRSSI
\* recomputes it by the channel strategy alone when rssi_channel > 0 (also
\* when the ADC feature is enabled), otherwise by the ADC strategy alone when
\* the ADC feature is enabled (and then only when the sampling is due), and
\* otherwise not at all.
C16_RssiInRangeByOneStrategy ==
    /\ [](rssi \in 0..1023)
    /\ [][\A adc \in SignalAdcValues :
            updateRSSI(adc) =>
                IF rxConfig.rssi_channel > 0
                THEN /\ rssi' = RssiOfChannel(rcData[rxConfig.rssi_channel - 1])
                     /\ UNCHANGED <<adcRssiSamples, adcRssiSampleIndex, rssiUpdateAt>>
                ELSE IF "RSSI_ADC" \in enabledFeatures /\ DueByModulus(sinceRssiUpdate)
                THEN /\ adcRssiSampleIndex' = (adcRssiSampleIndex + 1) % RSSI_ADC_SAMPLE_COUNT
                     /\ rssi' = RssiOfPercentage(WindowSum(adcRssiSamples')
                                                    \div RSSI_ADC_SAMPLE_COUNT)
                ELSE UNCHANGED <<rssi, adcRssiSamples, adcRssiSampleIndex, rssiUpdateAt>>]_vars

\* With the ADC feature enabled and channel 2 configured, the channel's full
\* scale has been converted and the ADC window has never been written.
C16_Witness ==
    /\ "RSSI_ADC" \in enabledFeatures
    /\ rxConfig.rssi_channel = 2
    /\ rssiInput = <<2000>>
    /\ rssi = 1023
    /\ adcTaken = 0

\* C15: after parseRcChannels on any configuration string, every entry of the
\* channel map is a physical index below the channel count, which is at most
\* the length of the published channel array; so no lookup of a logical
\* index below the map size answers an index beyond the receiver's channels.
C15_MapEntriesWithinChannelCount ==
    /\ \A k \in 0..(REMAPPABLE_CHANNEL_COUNT - 1) :
            rxConfig.rcmap[k] \in 0..(MAX_SUPPORTED_RC_CHANNEL_COUNT - 1)
    /\ \A i \in 1..Len(remapQuery) :
            remapQuery[i].chan < REMAPPABLE_CHANNEL_COUNT
                => remapQuery[i].rawChannel \in 0..(MAX_SUPPORTED_RC_CHANNEL_COUNT - 1)

\* The number of calls of the failsafe operation op among calls.
CallsOf(fsCallSeq, op) == Cardinality({i \in 1..Len(fsCallSeq) : fsCallSeq[i][1] = op})

\* C17 as stated: every call of calculateRxChannelsAndUpdateFailsafe calls
\* incrementCounter exactly once, before any other failsafe operation of the
\* tick.
C17_Original_EveryTickIncrements ==
    [][RxTick => /\ CallsOf(fsCalls', "incrementCounter") = 1
                 /\ fsCalls'[1] = <<"incrementCounter">>]_vars

\* C17: with the failsafe feature enabled, every call of
\* calculateRxChannelsAndUpdateFailsafe calls incrementCounter exactly once,
\* with or without a frame or a pulse, and before any reset or checkPulse of
\* the same tick; with the feature disabled it never calls incrementCounter.
C17_TickIncrementsWhenFailsafeEnabled ==
    [][RxTick => IF "FAILSAFE" \in enabledFeatures
                 THEN /\ CallsOf(fsCalls', "incrementCounter") = 1
                      /\ fsCalls'[1] = <<"incrementCounter">>
                 ELSE CallsOf(fsCalls', "incrementCounter") = 0]_vars

\* A PPM tick with pulses: the counter is incremented, then both channels
\* are checked.
C17_Witness ==
    /\ "FAILSAFE" \in enabledFeatures
    /\ Len(fsCalls) = 3
    /\ fsCalls[1] = <<"incrementCounter">>
    /\ fsCalls[2][1] = "checkPulse"
    /\ fsCalls[3][1] = "checkPulse"

\* Pulses are being received: the PPM driver says so for a PPM receiver; the
\* channels of any other receiver are checked at every read.
PulsesReceived == IF "RX_PPM" \in enabledFeatures THEN ppmDataReceived ELSE TRUE

FrameObserved == UpdateRx /\ frameComplete /\ feature({"RX_SERIAL", "RX_MSP"})

\* What a step of updateRx or of a processing tick does about a frame.
FrameStep ==
    /\ FrameObserved =>
            /\ rcDataReceived'
            /\ ("FAILSAFE" \in enabledFeatures => fsCalls' = << <<"reset">> >>)
    /\ (UpdateRx /\ ~FrameObserved) => (~rcDataReceived' /\ fsCalls' = << >>)
    /\ (RxTick /\ rcDataReceived) =>
            /\ CallsOf(fsCalls', "reset") = 1
            /\ Len(rawRead') = rxRuntimeConfig.channelCount
            /\ \A chan \in 0..(rxRuntimeConfig.channelCount - 1) :
                    rcData'[chan] = Kept(rawRead'[chan + 1][2])
            /\ ~rcDataReceived'
    /\ (RxTick /\ ~rcDataReceived) => CallsOf(fsCalls', "reset") = 0

\* C19: when updateRx observes a complete frame, the frame-received flag is
\* set, so shouldProcessRx is true at any time, also before the deadline, and
\* the failsafe controller is reset there when its feature is enabled; the
\* processing tick that finds the flag set calls reset, reads every channel
\* from the frame and clears the flag; and a tick or an updateRx that finds
\* no frame calls no reset.
C19_FrameObservedIsProcessedAtOnce ==
    /\ [](rcDataReceived =>
            \A time \in {currentTime, rxUpdateAt, U32Sub(rxUpdateAt, U32(0, 1))} :
                shouldProcessRx(time))
    /\ [][FrameStep]_vars

\* A frame has been observed after the first tick set the deadline 20000
\* ahead: processing is due although the deadline is not reached.
C19_Witness ==
    /\ rcDataReceived
    /\ fsCalls = << <<"reset">> >>
    /\ ~int32Elapsed(currentTime, rxUpdateAt)
    /\ shouldProcessRx(currentTime)

\* The step is a tick of a PWM or PPM receiver.
PollTick == RxTick /\ ~isRxDataDriven

\* The mean of the four slots of a window, truncated toward zero.
MeanOfWindow(window) == TruncDiv(window[0] + window[1] + window[2] + window[3], 4)

\* C24: on each of the first 3 POLL ticks after startup the value published
\* for every channel is the validated sample of that tick, not an average
\* over the zeroed window; from the 4th tick on, the same one for all
\* channels, the published value is the mean of the window.
C24_PollStartupPublishesSample ==
    [][PollTick =>
        \A chan \in 0..(rxRuntimeConfig.channelCount - 1) :
            IF pollTicks' <= 3
            THEN /\ rcData'[chan] = Kept(rawRead'[chan + 1][2])
                 /\ ~rxSamplesCollected'
            ELSE /\ rcData'[chan] = MeanOfWindow(rcSamples'[chan])
                 /\ rxSamplesCollected']_vars

\* The 3rd tick published its own sample 750 after two ticks of 1500; the
\* window still holds a zero and its mean would be 937.
C24_Witness ==
    /\ ~isRxDataDriven
    /\ pollTicks = 3
    /\ history[0] = <<1500, 1500, 750>>
    /\ rcData[0] = 750
    /\ MeanOfWindow(rcSamples[0]) = 937
    /\ ~rxSamplesCollected

\* C25: every POLL tick increments the cycle counter by one, modulo 256,
\* and overwrites in every channel's window the slot counter modulo 4 with
\* the validated sample, which is the slot after the one of the tick before,
\* also when the counter wraps from 255 to 0; so from the 4th tick on the
\* window holds the 4 most recent validated samples, and the
\* samples-collected state never goes back to false.
C25_RoundRobinAcrossWrap ==
    [][PollTick =>
        LET slot == rcSampleIndex' % 4
        IN /\ rcSampleIndex' = (rcSampleIndex + 1) % 256
           /\ slot = ((rcSampleIndex % 4) + 1) % 4
           /\ \A chan \in 0..(rxRuntimeConfig.channelCount - 1) :
                /\ rcSamples'[chan] =
                        [rcSamples[chan] EXCEPT ![slot] = Kept(rawRead'[chan + 1][2])]
                /\ pollTicks' >= 4 =>
                        \A k \in 1..4 : history'[chan][k] = rcSamples'[chan][(slot + k) % 4]
           /\ rxSamplesCollected => rxSamplesCollected'
           /\ pollTicks' >= 4 => rxSamplesCollected']_vars

\* The counter has wrapped to 0: slot 3 was written by tick 255 and slot 0
\* by tick 256, with different samples, and the mean is still published.
C25_Witness ==
    /\ ~isRxDataDriven
    /\ rcSampleIndex = 0
    /\ rxSamplesCollected
    /\ history[0] = <<1500, 750, 1500, 750>>
    /\ rcSamples[0] = [s \in Slots |-> IF s \in {0, 2} THEN 750 ELSE 1500]
    /\ rcData[0] = 1125

\* What a tick of a PPM receiver does about the pulse-received state, and
\* what sets that state.
PulseStep ==
    /\ (RxTick /\ "RX_PPM" \in enabledFeatures) =>
            /\ ~ppmDataReceived'
            /\ rcSampleIndex' = (rcSampleIndex + 1) % 256
            /\ Len(rawRead') = rxRuntimeConfig.channelCount
            /\ \A chan \in 0..(rxRuntimeConfig.channelCount - 1) :
                    LET kept == Kept(rawRead'[chan + 1][2])
                    IN /\ rcSamples'[chan][rcSampleIndex' % 4] = kept
                       /\ rcData'[chan] = IF rxSamplesCollected'
                                          THEN MeanOfWindow(rcSamples'[chan]) ELSE kept
            /\ CallsOf(fsCalls', "checkPulse") =
                    (IF ppmDataReceived /\ "FAILSAFE" \in enabledFeatures
                     THEN rxRuntimeConfig.channelCount ELSE 0)
    /\ (~ppmDataReceived /\ ppmDataReceived') => PpmPulse

\* C27: a tick of a PPM receiver whose driver reports no pulse since the
\* last check calls checkPulse for no channel, and still increments the
\* cycle counter and reads, validates, stores and publishes every channel;
\* every tick resets the pulse-received state, so that only a new pulse
\* makes the next tick check pulses again.
C27_NoPulseSkipsOnlyTheCheck ==
    [][PulseStep]_vars

\* After four ticks with pulses a tick without one: the failsafe counter was
\* incremented, no pulse was checked, both channels were read and the mean
\* of the window was published.
C27_Witness ==
    /\ "RX_PPM" \in enabledFeatures
    /\ "FAILSAFE" \in enabledFeatures
    /\ pollTicks = 5
    /\ fsCalls = << <<"incrementCounter">> >>
    /\ Len(rawRead) = 2
    /\ rawRead[1][2] = PULSE_MAX + 1
    /\ history[0] = <<1500, 1500, 1500, 1500>>
    /\ rcData[0] = 1500
    /\ ~ppmDataReceived

\* Less than 20000 time units have passed since the span began.
BeforeDelay(span) == span[1] = 0 /\ span[2] < DELAY_50_HZ
\* Between 20000 and 2^31 time units have passed since the span began.
DelayReached(span) == span[1] < 2 /\ ~BeforeDelay(span)

\* What the gate of a PWM or PPM receiver answers once a tick has run, and
\* when the main loop takes its next tick.
CadenceStep ==
    (CadenceTick /\ ~isRxDataDriven /\ pollTicks >= 1) => ~BeforeDelay(sinceRxUpdate)

\* C26: in POLL mode, once calculateRxChannelsAndUpdateFailsafe has run at
\* time t, shouldProcessRx(now) is false while now - t is below 20000 and
\* true while it is from 20000 up to 2^31, with or without new pulses; so a
\* main loop that processes only when shouldProcessRx is true takes two
\* consecutive ticks at least 20000 time units apart.
C26_PollCadence ==
    /\ []((~isRxDataDriven /\ pollTicks >= 1) =>
            /\ BeforeDelay(sinceRxUpdate) => ~shouldProcessRx(currentTime)
            /\ DelayReached(sinceRxUpdate) => shouldProcessRx(currentTime))
    /\ [][CadenceStep]_vars

\* Two ticks have run, exactly 20000 apart, and 19999 have passed since the
\* second, during which a pulse arrived: the next tick is not due.
C26_Witness ==
    /\ ~isRxDataDriven
    /\ pollTicks = 2
    /\ currentTime = U32(0, 2 * DELAY_50_HZ - 1)
    /\ sinceRxUpdate = <<0, DELAY_50_HZ - 1>>
    /\ ppmDataReceived
    /\ ~shouldProcessRx(currentTime)

\* C28: with rssi_channel = 0 and the ADC feature disabled, updateRSSI
\* changes nothing at any time: rssi keeps its value, the ADC window, its
\* index and the deadlines stay as they are.
C28_UnconfiguredRssiIsNoOp ==
    [][(CadenceRssi /\ rxConfig.rssi_channel = 0 /\ "RSSI_ADC" \notin enabledFeatures)
        => UNCHANGED vars]_vars

\* The state updateRSSI is called in and leaves behind: no RSSI source is
\* configured, the clock has wrapped past the ADC deadline that was never
\* moved, frames have been published, and nothing was ever converted.
C28_Witness ==
    /\ rxConfig.rssi_channel = 0
    /\ "RSSI_ADC" \notin enabledFeatures
    /\ ENABLED CadenceRssi
    /\ int32Elapsed(currentTime, rssiUpdateAt)
    /\ sinceRssiUpdate[1] >= 4
    /\ rcData[0] = PULSE_MIN
    /\ rssi = 0
    /\ rssiInput = << >>
    /\ adcTaken = 0

\* What the two gates leave to each other.
GateStep ==
    /\ (UpdateRssiAdc /\ BeforeDelay(sinceRssiUpdate)) =>
            UNCHANGED <<rssi, adcRssiSamples, adcRssiSampleIndex, rssiUpdateAt, rssiInput,
                        adcHistory, adcTaken>>
    /\ UpdateRssiAdc => UNCHANGED <<rxUpdateAt, sinceRxUpdate, channelVars, frameVars>>
    /\ ProcessRxWhenDue => UNCHANGED <<rssi, adcRssiSamples, adcRssiSampleIndex, rssiUpdateAt,
                                       sinceRssiUpdate, rssiInput, adcHistory, adcTaken>>

\* C29: a call of updateRSSIADC made less than 20000 time units after the
\* sampling call before it reads no ADC sample and leaves rssi, the window,
\* the slot index and the deadline as they are; the ADC deadline and the
\* deadline of the channel sampling are two: a sampling call does not move
\* the channel deadline and a tick does not move the ADC deadline.
C29_AdcGateIsItsOwn ==
    [][GateStep]_vars

\* The state a call before the deadline is made in and leaves behind: one
\* sample was taken 19999 ago, the ADC is not due, while the channel
\* deadline, never moved, is.
C29_Witness ==
    /\ adcTaken = 1
    /\ sinceRssiUpdate = <<0, DELAY_50_HZ - 1>>
    /\ ~int32Elapsed(currentTime, rssiUpdateAt)
    /\ rxUpdateAt = U32Zero
    /\ shouldProcessRx(currentTime)
    /\ ENABLED UpdateRssiAdc

\* The step is a tick of a frame receiver taken at the deadline while no
\* frame has been received.
QuietTick == CadenceTick /\ isRxDataDriven /\ ~rcDataReceived

\* Such a tick changes no entry of the published array and nothing else of
\* the pipeline, reads no channel and moves the deadline to 20000 after the
\* call.
QuietTickKeeps ==
    /\ UNCHANGED <<rcData, rcSamples, rcDataMean, rcSampleIndex, rxSamplesCollected,
                   rcDataReceived, frameComplete, ppmDataReceived, configVars, rssiVars>>
    /\ rawRead' = << >>
    /\ rxUpdateAt' = U32Add(currentTime, U32(0, DELAY_50_HZ))

\* C30 as stated: in PUSH mode a tick taken at the deadline while no frame
\* has been received leaves the published array unchanged, reads no channel
\* and calls neither reset nor checkPulse; the deadline advances and the
\* failsafe counter is incremented.
C30_Original_QuietTickIncrements ==
    [][QuietTick => (QuietTickKeeps /\ fsCalls' = << <<"incrementCounter">> >>)]_vars

\* C30, amended: in PUSH mode a tick taken at the deadline while no frame
\* has been received leaves the published array unchanged, reads no channel
\* and calls neither reset nor checkPulse; the deadline advances, and the
\* failsafe counter is incremented when the failsafe feature is enabled and
\* no failsafe operation is called when it is not.
C30_DeadlineTickWithoutFrame ==
    [][QuietTick =>
        /\ QuietTickKeeps
        /\ fsCalls' = (IF "FAILSAFE" \in enabledFeatures
                       THEN << <<"incrementCounter">> >> ELSE << >>)]_vars

\* A frame was published, then the deadline passed without another frame
\* and a tick was taken: the frame's values are still published.
C30_Witness ==
    /\ isRxDataDriven
    /\ ~rcDataReceived
    /\ rcData[0] = PULSE_MIN
    /\ rcData[1] = PULSE_MIN
    /\ rawRead = << >>
    /\ fsCalls = << <<"incrementCounter">> >>
    /\ sinceRxUpdate = <<0, 0>>
    /\ rxUpdateAt = U32Add(currentTime, U32(0, DELAY_50_HZ))


\* The steps taken in interrupt context.
InterruptStep == LiveInterrupt \/ IRQReturn \/ Latch \/ FrameArrives \/ PpmPulse

\* The channel array changes in a pass of the channel loop only.
OnlyTheLoopWrites ==
    (rcData' # rcData) => (irqTim = NULL /\ loopPc.step = "channel" /\ LoopChannel)

\* The consumer reads the array as the latest completed call left it.
ConsumerSeesCompleteArray == Consume => consumed' = completeRcData

\* C21: after rxInit the channel array is written by the channel loop of
\* processRxChannels only, never by a step in interrupt context; with the
\* interrupts entering between any two steps of the main loop, the array
\* between two pipeline calls is the one the latest completed call left, and
\* that complete array is what a consumer running there reads.
C21_ConsumerSeesCompleteArray ==
    /\ [](loopPc = Idle => rcData = completeRcData)
    /\ [][InterruptStep => UNCHANGED rcData]_vars
    /\ [][OnlyTheLoopWrites]_vars
    /\ [][ConsumerSeesCompleteArray]_vars

\* A tick is half done (one channel written, the array differs from the
\* completed one), an interrupt has entered in the middle of it with an
\* edge callback invoked, and the consumer has read a published array before.
C21_Witness ==
    /\ loopPc.step = "channel"
    /\ loopPc.chan = 1
    /\ rcData # completeRcData
    /\ irqTim # NULL
    /\ calls # << >>
    /\ consumed # [chan \in 0..(MAX_SUPPORTED_RC_CHANNEL_COUNT - 1) |-> DefaultMidrc]

\* C33: with the failsafe feature disabled no call of updateRx or of
\* calculateRxChannelsAndUpdateFailsafe, for a PUSH or a POLL receiver,
\* calls an operation of the failsafe controller (reset, incrementCounter
\* or checkPulse).
C33_NoFailsafeCallWhenDisabled ==
    ~feature({"FAILSAFE"}) => fsCalls = << >>

\* The frame-received flag is cleared by a processing call only, which
\* reads and publishes the frame.
ObservedFrameCleared == rcDataReceived /\ ~rcDataReceived'
ClearedByProcessing == ObservedFrameCleared => (CadenceTick /\ rawRead' # << >>)

\* C34: for a PUSH receiver a frame that updateRx has observed stays
\* flagged until a call of calculateRxChannelsAndUpdateFailsafe publishes
\* it, also when updateRx is called again before that call.
C34_ObservedFrameIsPublished ==
    [][ClearedByProcessing]_vars

\* The sum of the window of a channel, as an integer.
WindowTotal(chan) ==
    rcSamples[chan][0] + rcSamples[chan][1] + rcSamples[chan][2] + rcSamples[chan][3]

ConstantSamples(k, p) ==
    /\ rxConfig.rssi_channel = 0
    /\ adcTaken = k
    /\ Len(adcHistory) = k
    /\ \A i \in 1..k : adcHistory[i] = p

\* The window after k samples of p from the zeroed window: slots 1..k hold
\* p, slot 0 is written by the 16th sample.
WindowAfter(k, p) ==
    [s \in 0..(RSSI_ADC_SAMPLE_COUNT - 1) |->
        IF (1 <= s /\ s <= k) \/ k = RSSI_ADC_SAMPLE_COUNT THEN p ELSE 0]

StartupStateIs(k, p) ==
    /\ adcRssiSamples = WindowAfter(k, p)
    /\ adcRssiSampleIndex = k % RSSI_ADC_SAMPLE_COUNT
    /\ rssi = ((((k * p) \div RSSI_ADC_SAMPLE_COUNT) * 1023) \div 100)
    /\ (k < RSSI_ADC_SAMPLE_COUNT /\ p > 0) => rssi < ((p * 1023) \div 100)
    /\ k = RSSI_ADC_SAMPLE_COUNT => rssi = ((p * 1023) \div 100)

\* One more sample of the same percentage during the start-up.
StartupStep ==
    \E k \in 1..(RSSI_ADC_SAMPLE_COUNT - 1), p \in 0..100 :
        ConstantSamples(k, p) /\ ConstantSamples(k + 1, p)'

StartupNeverDecreases == StartupStep => rssi' >= rssi

\* C38: there is no start-up guard in the ADC strategy.  From the zeroed
\* window, after k <= 16 due samples of one percentage p the mean is taken
\* over all 16 slots: rssi is trunc(trunc(k * p / 16) * 1023 / 100), below
\* its steady value until the 16th sample, and never decreases from one
\* sample to the next; the first sample is in slot 1 and slot 0 is written
\* last, by the 16th.
C38_AdcStartupHasNoGuard ==
    /\ [](\A k \in 1..RSSI_ADC_SAMPLE_COUNT, p \in 0..100 :
            ConstantSamples(k, p) => StartupStateIs(k, p))
    /\ [][StartupNeverDecreases]_vars

\* Fifteen samples of 50 percent: slot 0 is still zero and rssi is 470,
\* the value of the mean 46, instead of 511.
C38_Witness ==
    /\ ConstantSamples(RSSI_ADC_SAMPLE_COUNT - 1, NominalPercentage)
    /\ adcRssiSamples[0] = 0
    /\ adcRssiSamples[1] = NominalPercentage
    /\ adcRssiSampleIndex = RSSI_ADC_SAMPLE_COUNT - 1
    /\ rssi = 470

(***************************************************************************)
(*                 Properties of the configuration storage                 *)
(***************************************************************************)

InWrite == eeprom.step # "idle"

AtMostThreeAttempts == InWrite => eeprom.attempts <= 3

NothingAfterFailedOperation == InWrite => eeprom.afterFailure = 0

RelockedAtReturn == eeprom.step = "done" => eeprom.locked

LastAttemptComplete == eeprom.programmed = ConfigWords

FailureModeIffNotWritten ==
    eeprom.step = "done" =>
        (eeprom.failureMode = 10 <=>
            (~LastAttemptComplete \/ ~isEEPROMContentValid(eeprom.flash)))

NoAttemptAfterCompleteOne ==
    (InWrite /\ eeprom'.attempts > eeprom.attempts)
        => ~LastAttemptComplete

\* C37: writeEEPROM makes at most 3 write attempts, abandons an attempt at
\* the first page-erase or word-program that does not complete, makes no
\* further attempt after one in which every word was programmed, has locked
\* the flash again when it ends, and enters failureMode(10) if and only if
\* the last attempt did not complete or the stored content does not validate.
C37_WriteEEPROMAttempts ==
    /\ [](AtMostThreeAttempts /\ NothingAfterFailedOperation /\ RelockedAtReturn
            /\ FailureModeIffNotWritten)
    /\ [][NoAttemptAfterCompleteOne]_vars

\* Every word was programmed in the last attempt, the status is complete,
\* and a worn cell leaves an image that does not validate: failureMode(10).
C37_Witness ==
    /\ eeprom.step = "done"
    /\ LastAttemptComplete
    /\ eeprom.status = "FLASH_COMPLETE"
    /\ ~isEEPROMContentValid(eeprom.flash)
    /\ eeprom.failureMode = 10
    /\ eeprom.locked

\* Three attempts that each stopped at an operation that did not complete.
C37_ThreeAttemptsWitness ==
    /\ eeprom.step = "done"
    /\ eeprom.attempts = 3
    /\ ~LastAttemptComplete
    /\ eeprom.failureMode = 10

\* A failed attempt followed by a complete one that validates.
C37_RetryWitness ==
    /\ eeprom.step = "done"
    /\ eeprom.attempts = 2
    /\ LastAttemptComplete
    /\ eeprom.flash = eeprom.masterConfig
    /\ eeprom.failureMode = 0

====
